---- MODULE Spec2Model ----
(***************************************************************************)
(* State-machine model of the BGI-Ujjain backend: the user store, the     *)
(* access gate, the notification handlers, event attendance and the duty  *)
(* chart controllers, with the properties claimed of them.                *)
(***************************************************************************)
EXTENDS Integers, Sequences, FiniteSets, TLC

\* ------------------------------------------------------------------ bounds
NumUsers == 2
MaxNotifs == 1
MaxMiqaats == 1
MaxCharts == 1
MaxReqs == 2
MaxAttend == 2
MaxSweeps == 2
MaxPayments == 2
MaxJoins == 2
MaxInbox == 2
MaxKeys == 2

MaxTxns == 2

MaxAssignments == 2

MaxSessions == 2

MaxMarks == 2

\* --------------------------------------------------------- identifiers
\* An ObjectId is a number; 0 stands for null / undefined.
ObjectIds == 1..NumUsers
NullId == 0

\* The strings a client can send where an id is expected: the lowercase hex
\* form of an ObjectId, the same hex digits in upper case, or free text.
HexStrings == {<<"hex", n>> : n \in ObjectIds}
UpperStrings == {<<"HEX", n>> : n \in ObjectIds}
TextStrings == {<<"txt", 0>>}
NullStr == <<"null", 0>>

\* mongoose.Types.ObjectId.isValid on a supplied string
isValidObjectId(s) == s[1] \in {"hex", "HEX"}

\* casting a valid string to an ObjectId ignores the case of the hex digits
CastObjectId(s) == s[2]

\* ObjectId.toString() / String(objectId): always lowercase hex
ToHexString(oid) == <<"hex", oid>>

\* ------------------------------------------------------------------ state
VARIABLES users, tokens, notifications, miqaats, regs, charts, pending, rev,
          payments, today, sweeps, joins, txns, attendances, marks, resp

vars == <<users, tokens, notifications, miqaats, regs, charts, pending, rev,
          payments, today, sweeps, joins, txns, attendances, marks, resp>>

\* a calendar day; the months are numbered as Date.getMonth() numbers them
Date(y, m, d) == [y |-> y, m |-> m, d |-> d]

\* the day the seed script ran
SeedDay == Date(2024, 0, 15)

Roles == {"SuperAdmin", "Admin", "Captain", "Finance", "Member"}

\* a user record; status "unborn" is an id not yet handed out, "deleted" a
\* removed document
Exists(n) == n \in ObjectIds /\ users[n].status \in {"active", "inactive"}

ActiveUsers == {n \in ObjectIds : users[n].status = "active"}

\* the last response: handler, status code, caller, target document, the id
\* string of the request body and the message
RespArg(op, status, who, tgt, arg, info) ==
  [op |-> op, status |-> status, who |-> who, tgt |-> tgt, arg |-> arg, info |-> info]

Resp(op, status, who, tgt, info) == RespArg(op, status, who, tgt, NullStr, info)

\* ---------------------------------------------------------- sequence helpers
RECURSIVE SeqFilterOut(_, _)
SeqFilterOut(s, x) ==
  IF s = <<>> THEN <<>>
  ELSE IF Head(s) = x THEN SeqFilterOut(Tail(s), x)
       ELSE <<Head(s)>> \o SeqFilterOut(Tail(s), x)

Range(s) == {s[i] : i \in 1..Len(s)}

Count(s, x) == Cardinality({i \in 1..Len(s) : s[i] = x})

RECURSIVE SortedSeq(_)
SortedSeq(S) ==
  IF S = {} THEN <<>>
  ELSE LET m == CHOOSE x \in S : \A y \in S : x <= y
       IN <<m>> \o SortedSeq(S \ {m})

\* ------------------------------------------------------------- access gate
\* auth: a request passes when it carries a token issued by login; the
\* decoded payload {id, role} becomes req.user, with _id set to id.
Authenticated(tok) == tok \in tokens

allowRoles(roles, tok) == tok.role \in roles

isAdminOrSuper(r) == r \in {"Admin", "SuperAdmin"}

isMember(r) == r = "Member"

\* ------------------------------------------------------------ user store
TokenOf(n) == [id |-> n, role |-> users[n].role]

\* ids are handed out in increasing order and never reused
NextUserId == CHOOSE n \in ObjectIds :
                /\ users[n].status = "unborn"
                /\ \A k \in ObjectIds : users[k].status = "unborn" => n <= k

\* POST /login: the user must exist, be active and present the right password
loginUser(n, pwOk) ==
  /\ n \in ObjectIds
  /\ IF ~Exists(n) THEN
       /\ resp' = Resp("login", 401, n, NullId, "User not found")
       /\ UNCHANGED tokens
     ELSE IF users[n].status # "active" THEN
       /\ resp' = Resp("login", 401, n, NullId, "User account is inactive")
       /\ UNCHANGED tokens
     ELSE IF ~pwOk THEN
       /\ resp' = Resp("login", 401, n, NullId, "Invalid ITS number or password")
       /\ UNCHANGED tokens
     ELSE
       /\ tokens' = tokens \cup {TokenOf(n)}
       /\ resp' = Resp("login", 200, n, NullId, "token")
  /\ UNCHANGED <<users, notifications, miqaats, regs, charts, pending, rev, payments, today, sweeps, joins, txns, attendances, marks>>

\* POST /login as authController.js defines it a second time (315-339): the
\* user must exist and present the right password; the status is not read
loginUserLater(n, pwOk) ==
  /\ n \in ObjectIds
  /\ IF ~Exists(n) THEN
       /\ resp' = Resp("login", 401, n, NullId, "User not found")
       /\ UNCHANGED tokens
     ELSE IF ~pwOk THEN
       /\ resp' = Resp("login", 401, n, NullId, "Invalid ITS number or password")
       /\ UNCHANGED tokens
     ELSE
       /\ tokens' = tokens \cup {TokenOf(n)}
       /\ resp' = Resp("login", 200, n, NullId, "token")
  /\ UNCHANGED <<users, notifications, miqaats, regs, charts, pending, rev, payments, today, sweeps, joins, txns, attendances, marks>>

\* POST /members behind auth and allowRoles("SuperAdmin", "Admin")
createMember(tok, role, status, valid) ==
  /\ Authenticated(tok)
  /\ IF ~allowRoles({"SuperAdmin", "Admin"}, tok) THEN
       /\ resp' = Resp("createMember", 403, tok.id, NullId, "Access denied")
       /\ UNCHANGED users
     ELSE IF ~valid THEN
       /\ resp' = Resp("createMember", 400, tok.id, NullId, "rejected")
       /\ UNCHANGED users
     ELSE
       /\ \E n \in ObjectIds : users[n].status = "unborn"
       /\ users' = [users EXCEPT ![NextUserId] = [status |-> status, role |-> role, createdAt |-> today,
                                               itsNumber |-> NextUserId, email |-> NextUserId]]
       /\ resp' = Resp("createMember", 201, tok.id, NextUserId, "Member created successfully")
  /\ UNCHANGED <<tokens, notifications, miqaats, regs, charts, pending, rev, payments, today, sweeps, joins, txns, attendances, marks>>

\* PUT /members/:id, findByIdAndUpdate(id, updates) with updates = {status}
updateMember(tok, n, status) ==
  /\ Authenticated(tok)
  /\ IF ~allowRoles({"SuperAdmin", "Admin"}, tok) THEN
       /\ resp' = Resp("updateMember", 403, tok.id, n, "Access denied")
       /\ UNCHANGED users
     ELSE IF ~Exists(n) THEN
       /\ resp' = Resp("updateMember", 404, tok.id, n, "Member not found")
       /\ UNCHANGED users
     ELSE
       /\ users' = [users EXCEPT ![n].status = status]
       /\ resp' = Resp("updateMember", 200, tok.id, n, "Member updated successfully")
  /\ UNCHANGED <<tokens, notifications, miqaats, regs, charts, pending, rev, payments, today, sweeps, joins, txns, attendances, marks>>

\* DELETE /members/:id, findByIdAndDelete(id)
deleteMember(tok, n) ==
  /\ Authenticated(tok)
  /\ IF ~allowRoles({"SuperAdmin", "Admin"}, tok) THEN
       /\ resp' = Resp("deleteMember", 403, tok.id, n, "Access denied")
       /\ UNCHANGED users
     ELSE IF ~Exists(n) THEN
       /\ resp' = Resp("deleteMember", 404, tok.id, n, "Member not found")
       /\ UNCHANGED users
     ELSE
       /\ users' = [users EXCEPT ![n].status = "deleted"]
       /\ resp' = Resp("deleteMember", 200, tok.id, n, "Member deleted successfully")
  /\ UNCHANGED <<tokens, notifications, miqaats, regs, charts, pending, rev, payments, today, sweeps, joins, txns, attendances, marks>>

\* -------------------------------------------- member creation, step by step
\* POST /members and registerUser look the user up and then save it, with an
\* await between the two, so that other requests run in between.

\* the itsNumber and email strings of a request body; NoKey is a field left out
Keys == 1..MaxKeys

NoKey == 0

\* a request body: the two keys and whether zone is a non-blank string; name,
\* surname and mobile are taken to be present
JoinBody(itsNumber, email, zone) ==
  [itsNumber |-> itsNumber, email |-> email, zone |-> zone]

\* a creation request: idle, or past its lookup and about to save
IdleJoin == [pc |-> "idle", via |-> "", who |-> NullId, body |-> <<>>]

\* User.findOne with only the itsNumber branch of the $or
userExistsByIts(body) ==
  \E n \in ObjectIds : Exists(n) /\ users[n].itsNumber = body.itsNumber

\* User.findOne({$or: [{itsNumber}, {email}]}); a field left out matches no
\* stored user, since every stored user has both
userExists(body) ==
  \E n \in ObjectIds :
    Exists(n) /\ (users[n].itsNumber = body.itsNumber \/ users[n].email = body.email)

\* the required paths of userSchema; POST /members fills in the password
ValidationFails(body) == body.itsNumber = NoKey \/ body.email = NoKey

\* the unique indexes of userSchema on email and itsNumber: the insert of a
\* document is refused with E11000 while a stored one has either key
DuplicateKey(body) ==
  \E n \in ObjectIds :
    Exists(n) /\ (users[n].itsNumber = body.itsNumber \/ users[n].email = body.email)

JoinResp(via, status, who, tgt, body, info) == RespArg(via, status, who, tgt, body, info)

JoinFrame == UNCHANGED <<tokens, notifications, miqaats, regs, charts, pending, rev,
                         payments, today, sweeps, txns, attendances, marks>>

\* POST /members up to its await of User.findOne
createMemberFind(r, tok, body) ==
  /\ joins[r].pc = "idle"
  /\ Authenticated(tok)
  /\ IF ~allowRoles({"SuperAdmin", "Admin"}, tok) THEN
       /\ resp' = JoinResp("POST /members", 403, tok.id, NullId, body, "Access denied")
       /\ UNCHANGED <<joins, txns, attendances, marks>>
     ELSE IF body.itsNumber = NoKey THEN
       /\ resp' = JoinResp("POST /members", 400, tok.id, NullId, body, "ITS number required")
       /\ UNCHANGED <<joins, txns, attendances, marks>>
     ELSE IF ~body.zone THEN
       /\ resp' = JoinResp("POST /members", 400, tok.id, NullId, body, "Zone is required")
       /\ UNCHANGED <<joins, txns, attendances, marks>>
     ELSE IF userExists(body) THEN
       /\ resp' = JoinResp("POST /members", 400, tok.id, NullId, body,
                           "User already exists with this ITS or email")
       /\ UNCHANGED <<joins, txns, attendances, marks>>
     ELSE
       /\ joins' = [joins EXCEPT ![r] = [pc |-> "save", via |-> "POST /members",
                                         who |-> tok.id, body |-> body]]
       /\ UNCHANGED resp
  /\ UNCHANGED users
  /\ JoinFrame

\* registerUser up to its await of User.findOne
registerUserFind(r, body) ==
  /\ joins[r].pc = "idle"
  /\ IF userExists(body) THEN
       /\ resp' = JoinResp("registerUser", 400, NullId, NullId, body,
                           "User with this email or ITS number already exists")
       /\ UNCHANGED <<joins, txns, attendances, marks>>
     ELSE
       /\ joins' = [joins EXCEPT ![r] = [pc |-> "save", via |-> "registerUser",
                                         who |-> NullId, body |-> body]]
       /\ UNCHANGED resp
  /\ UNCHANGED users
  /\ JoinFrame

\* the welcome email sent with no try of its own: a failure of the send
\* reaches the catch of the handler
WelcomedUncaught(via, mailFails) ==
  IF via = "POST /members" /\ mailFails
  THEN [status |-> 500, info |-> "Server error"]
  ELSE [status |-> 201, info |-> "created"]

\* the answer once the user is stored: POST /members sends the welcome
\* email inside a try of its own, and a failure of the send only adds the
\* advisory emailError to the 201; registerUser sends no email
Welcomed(via, mailFails) ==
  IF via = "POST /members" /\ mailFails
  THEN [status |-> 201, info |-> "Member created but email send failed"]
  ELSE [status |-> 201, info |-> "created"]

\* member.save() / User.create(): validation, then the insert; an error of
\* either lands in the catch of the handler, which answers 500; then the
\* welcome email, whose transport fails when mailFails
joinSave(r, mailFails) ==
  /\ joins[r].pc = "save"
  /\ LET j == joins[r]
         welcomed == Welcomed(j.via, mailFails)
     IN IF ValidationFails(j.body) THEN
          /\ resp' = JoinResp(j.via, 500, j.who, NullId, j.body, "User validation failed")
          /\ UNCHANGED users
        ELSE IF DuplicateKey(j.body) THEN
          /\ resp' = JoinResp(j.via, 500, j.who, NullId, j.body, "E11000 duplicate key error")
          /\ UNCHANGED users
        ELSE
          /\ \E n \in ObjectIds : users[n].status = "unborn"
          /\ users' = [users EXCEPT ![NextUserId] =
                         [status |-> "active", role |-> "Member", createdAt |-> today,
                          itsNumber |-> j.body.itsNumber, email |-> j.body.email]]
          /\ resp' = JoinResp(j.via, welcomed.status, j.who, NextUserId, j.body, welcomed.info)
  /\ joins' = [joins EXCEPT ![r] = IdleJoin]
  /\ JoinFrame

\* -------------------------------------------------------------- the gate
\* jwt.sign(payload, secret, {expiresIn: "7d"}): lifetime in days
TokenLifetime == 7

\* what a request carries in its Authorization header: no header, another
\* scheme, or "Bearer <token>"; signed says the token bears the server's
\* signature and age is the time since it was issued, in days
NoCred == [header |-> "none", signed |-> FALSE, age |-> 0, payload |-> <<>>]

BasicCred == [header |-> "basic", signed |-> FALSE, age |-> 0, payload |-> <<>>]

Bearer(payload, signed, age) ==
  [header |-> "bearer", signed |-> signed, age |-> age, payload |-> payload]

\* authHeader.startsWith("Bearer ") ? authHeader.split(" ")[1] : null
ExtractToken(cred) == IF cred.header = "bearer" THEN cred ELSE NoCred

\* the mutant of jwtVerify that ignores the expiry
jwtVerifyNoExpiry(cred) == cred.signed

\* jwt.verify(token, secret): the signature is the server's and exp is ahead
jwtVerify(cred) == cred.signed /\ cred.age < TokenLifetime

\* the mutant of Gate that looks the subject up and refuses a token whose
\* user is no longer active
GateChecksRecord(cred, roles) ==
  IF ExtractToken(cred) = NoCred THEN 401
  ELSE IF ~jwtVerify(ExtractToken(cred)) THEN 401
  ELSE IF users[cred.payload.id].status # "active" THEN 401
  ELSE IF ~allowRoles(roles, cred.payload) THEN 403
  ELSE 0

\* auth followed by allowRoles(roles): 401, 403 or 0 when the handler runs
Gate(cred, roles) ==
  IF ExtractToken(cred) = NoCred THEN 401
  ELSE IF ~jwtVerify(ExtractToken(cred)) THEN 401
  ELSE IF ~allowRoles(roles, cred.payload) THEN 403
  ELSE 0

GateMsg(cred) ==
  IF ExtractToken(cred) = NoCred THEN "No token, authorization denied" ELSE "Token is not valid"

\* DELETE /members/:id with the request's credentials, through auth and
\* allowRoles("SuperAdmin", "Admin")
deleteMemberRequest(cred, n) ==
  IF Gate(cred, {"SuperAdmin", "Admin"}) = 401 THEN
    /\ resp' = RespArg("deleteMember", 401, NullId, n, cred, GateMsg(cred))
    /\ UNCHANGED <<users, tokens, notifications, miqaats, regs, charts, pending, rev, payments, today, sweeps, joins, txns, attendances, marks>>
  ELSE deleteMember(cred.payload, n)

\* PUT /members/:id with updates = {role}
updateMemberRole(tok, n, role) ==
  /\ Authenticated(tok)
  /\ IF ~allowRoles({"SuperAdmin", "Admin"}, tok) THEN
       /\ resp' = Resp("updateMember", 403, tok.id, n, "Access denied")
       /\ UNCHANGED users
     ELSE IF ~Exists(n) THEN
       /\ resp' = Resp("updateMember", 404, tok.id, n, "Member not found")
       /\ UNCHANGED users
     ELSE
       /\ users' = [users EXCEPT ![n].role = role]
       /\ resp' = Resp("updateMember", 200, tok.id, n, "Member updated successfully")
  /\ UNCHANGED <<tokens, notifications, miqaats, regs, charts, pending, rev, payments, today, sweeps, joins, txns, attendances, marks>>

\* ------------------------------------------------------ notification fan-out
NotificationTypes == {"duty", "miqaat", "general"}

\* the schema's validators: type within the enum, createdBy required
ValidNotification(doc) == doc.type \in NotificationTypes /\ doc.createdBy # NullId

\* notifyAllUsers(type, message, createdBy): resolve the active users and, when
\* there are any, create one notification addressed to all of them.  The
\* result is the created document, "none" when nobody is active, "throws"
\* when the schema rejects the document, "unavailable" when the store fails.
notifyAllUsers(type, miqaatId, createdBy, storeFails) ==
  LET doc == [type |-> type, miqaatId |-> miqaatId, createdBy |-> createdBy,
              forUsers |-> SortedSeq(ActiveUsers), readBy |-> <<>>]
  IN IF storeFails THEN [outcome |-> "unavailable", docs |-> <<>>]
     ELSE IF ActiveUsers = {} THEN [outcome |-> "none", docs |-> <<>>]
     ELSE IF ~ValidNotification(doc) THEN [outcome |-> "throws", docs |-> <<>>]
     ELSE [outcome |-> "created", docs |-> <<doc>>]

\* the dev endpoint answering 500 whenever the fan-out created nothing
notifyTestStrict(type, createdBy, storeFails) ==
  /\ LET nt == notifyAllUsers(type, NullId, createdBy, storeFails)
     IN /\ notifications' = notifications \o nt.docs
        /\ resp' = IF nt.outcome # "created"
                   THEN Resp("notifyTest", 500, createdBy, NullId, nt.outcome)
                   ELSE Resp("notifyTest", 200, createdBy, NullId, nt.outcome)
  /\ UNCHANGED <<users, tokens, miqaats, regs, charts, pending, rev, payments, today, sweeps, joins, txns, attendances, marks>>

\* POST /api/dev/notify-test (no access gate)
notifyTest(type, createdBy, storeFails) ==
  /\ LET nt == notifyAllUsers(type, NullId, createdBy, storeFails)
     IN /\ notifications' = notifications \o nt.docs
        /\ resp' = IF nt.outcome \in {"throws", "unavailable"}
                   THEN Resp("notifyTest", 500, createdBy, NullId, nt.outcome)
                   ELSE Resp("notifyTest", 200, createdBy, NullId, nt.outcome)
  /\ UNCHANGED <<users, tokens, miqaats, regs, charts, pending, rev, payments, today, sweeps, joins, txns, attendances, marks>>

\* createMiqaat with the fan-out left outside any try/catch of its own: a
\* fan-out failure reaches the handler's outer catch
createMiqaatUncaught(tok, validBody, createFails, storeFails) ==
  /\ Authenticated(tok)
  /\ IF ~allowRoles({"SuperAdmin", "Admin"}, tok) \/ ~isAdminOrSuper(tok.role) THEN
       /\ resp' = Resp("createMiqaat", 403, tok.id, NullId, "Forbidden")
       /\ UNCHANGED <<miqaats, notifications>>
     ELSE IF ~validBody THEN
       /\ resp' = Resp("createMiqaat", 400, tok.id, NullId, "name, location, date are required.")
       /\ UNCHANGED <<miqaats, notifications>>
     ELSE IF createFails THEN
       /\ resp' = Resp("createMiqaat", 500, tok.id, NullId, "Server error")
       /\ UNCHANGED <<miqaats, notifications>>
     ELSE
       /\ LET id == Len(miqaats) + 1
              nt == notifyAllUsers("miqaat", id, tok.id, storeFails)
          IN /\ miqaats' = Append(miqaats, [createdBy |-> tok.id, attendance |-> <<>>])
             /\ notifications' = notifications \o nt.docs
             /\ resp' = IF nt.outcome \in {"throws", "unavailable"}
                        THEN Resp("createMiqaat", 500, tok.id, id, nt.outcome)
                        ELSE Resp("createMiqaat", 201, tok.id, id, nt.outcome)
  /\ UNCHANGED <<users, tokens, regs, charts, pending, rev, payments, today, sweeps, joins, txns, attendances, marks>>

\* createMiqaat passing the fan-out a plain message, without the event id
createMiqaatNoEventId(tok, validBody, createFails, storeFails) ==
  /\ Authenticated(tok)
  /\ IF ~allowRoles({"SuperAdmin", "Admin"}, tok) \/ ~isAdminOrSuper(tok.role) THEN
       /\ resp' = Resp("createMiqaat", 403, tok.id, NullId, "Forbidden")
       /\ UNCHANGED <<miqaats, notifications>>
     ELSE IF ~validBody THEN
       /\ resp' = Resp("createMiqaat", 400, tok.id, NullId, "name, location, date are required.")
       /\ UNCHANGED <<miqaats, notifications>>
     ELSE IF createFails THEN
       /\ resp' = Resp("createMiqaat", 500, tok.id, NullId, "Server error")
       /\ UNCHANGED <<miqaats, notifications>>
     ELSE
       /\ LET id == Len(miqaats) + 1
              nt == notifyAllUsers("miqaat", NullId, tok.id, storeFails)
          IN /\ miqaats' = Append(miqaats, [createdBy |-> tok.id, attendance |-> <<>>])
             /\ notifications' = notifications \o nt.docs
             /\ resp' = Resp("createMiqaat", 201, tok.id, id, nt.outcome)
  /\ UNCHANGED <<users, tokens, regs, charts, pending, rev, payments, today, sweeps, joins, txns, attendances, marks>>

\* POST /miqaat behind auth and allowRoles("SuperAdmin", "Admin")
createMiqaat(tok, validBody, createFails, storeFails) ==
  /\ Authenticated(tok)
  /\ IF ~allowRoles({"SuperAdmin", "Admin"}, tok) \/ ~isAdminOrSuper(tok.role) THEN
       /\ resp' = Resp("createMiqaat", 403, tok.id, NullId, "Forbidden")
       /\ UNCHANGED <<miqaats, notifications>>
     ELSE IF ~validBody THEN
       /\ resp' = Resp("createMiqaat", 400, tok.id, NullId, "name, location, date are required.")
       /\ UNCHANGED <<miqaats, notifications>>
     ELSE IF createFails THEN
       /\ resp' = Resp("createMiqaat", 500, tok.id, NullId, "Server error")
       /\ UNCHANGED <<miqaats, notifications>>
     ELSE
       /\ LET id == Len(miqaats) + 1
              nt == notifyAllUsers("miqaat", id, tok.id, storeFails)
          IN /\ miqaats' = Append(miqaats, [createdBy |-> tok.id, attendance |-> <<>>])
             /\ notifications' = notifications \o nt.docs
             /\ resp' = Resp("createMiqaat", 201, tok.id, id, nt.outcome)
  /\ UNCHANGED <<users, tokens, regs, charts, pending, rev, payments, today, sweeps, joins, txns, attendances, marks>>

\* ------------------------------------------------- per-user notification state
\* $push in place of $addToSet
AddToSetAsPush(arr, x) == Append(arr, x)

\* $set of the array to the one reader in place of $addToSet
AddToSetAlone(arr, x) == <<x>>

\* $addToSet: append unless already present
AddToSet(arr, x) == IF x \in Range(arr) THEN arr ELSE Append(arr, x)

\* PATCH /notifications/read/:id
markAsRead(tok, id) ==
  /\ Authenticated(tok)
  /\ notifications' = [i \in 1..Len(notifications) |->
        IF i = id
        THEN [notifications[i] EXCEPT !.readBy = AddToSet(@, tok.id)]
        ELSE notifications[i]]
  /\ resp' = Resp("markAsRead", 200, tok.id, id, "Notification marked as read")
  /\ UNCHANGED <<users, tokens, miqaats, regs, charts, pending, rev, payments, today, sweeps, joins, txns, attendances, marks>>

\* PATCH /notifications/read-all
markAllAsRead(tok) ==
  /\ Authenticated(tok)
  /\ notifications' = [i \in 1..Len(notifications) |->
        IF tok.id \in Range(notifications[i].forUsers)
        THEN [notifications[i] EXCEPT !.readBy = AddToSet(@, tok.id)]
        ELSE notifications[i]]
  /\ resp' = Resp("markAllAsRead", 200, tok.id, NullId, "All notifications marked as read")
  /\ UNCHANGED <<users, tokens, miqaats, regs, charts, pending, rev, payments, today, sweeps, joins, txns, attendances, marks>>

\* $pull with the condition left out: the array is emptied
PullEveryone(arr, x) == <<>>

\* $pull: remove every occurrence
Pull(arr, x) == SeqFilterOut(arr, x)

NotifIds == 1..MaxNotifs

\* PATCH /notifications/clear/:id
clearNotification(tok, id) ==
  /\ Authenticated(tok)
  /\ notifications' = [i \in 1..Len(notifications) |->
        IF i = id
        THEN [notifications[i] EXCEPT !.forUsers = Pull(@, tok.id)]
        ELSE notifications[i]]
  /\ resp' = Resp("clearNotification", 200, tok.id, id, "Notification cleared for user")
  /\ UNCHANGED <<users, tokens, miqaats, regs, charts, pending, rev, payments, today, sweeps, joins, txns, attendances, marks>>

\* PATCH /notifications/clear-all
clearAllNotifications(tok) ==
  /\ Authenticated(tok)
  /\ notifications' = [i \in 1..Len(notifications) |->
        IF tok.id \in Range(notifications[i].forUsers)
        THEN [notifications[i] EXCEPT !.forUsers = Pull(@, tok.id)]
        ELSE notifications[i]]
  /\ resp' = Resp("clearAllNotifications", 200, tok.id, NullId, "All notifications cleared for user")
  /\ UNCHANGED <<users, tokens, miqaats, regs, charts, pending, rev, payments, today, sweeps, joins, txns, attendances, marks>>

\* the notifications of a find({forUsers: userId})
ForUser(userId) ==
  {i \in 1..Len(notifications) : userId \in Range(notifications[i].forUsers)}

\* timestamps: true stamps createdAt when the document is inserted, and the
\* store keeps the documents in the order of insertion
CreatedAt(i) == i

\* .sort({createdAt: 1})
SortByCreatedAtAsc(S) ==
  CHOOSE s \in [1..Cardinality(S) -> S] :
    \A a, b \in 1..Cardinality(S) : a < b => CreatedAt(s[a]) < CreatedAt(s[b])

\* .sort({createdAt: -1})
SortByCreatedAtDesc(S) ==
  CHOOSE s \in [1..Cardinality(S) -> S] :
    \A a, b \in 1..Cardinality(S) : a < b => CreatedAt(s[a]) > CreatedAt(s[b])

\* notifications.map(n => ({...n, read: n.readBy.map(String).includes(String(userId))}))
Formatted(found, userId) ==
  [k \in 1..Len(found) |->
     [id |-> found[k], read |-> userId \in Range(notifications[found[k]].readBy)]]

\* GET /notifications
getNotifications(tok) ==
  /\ Authenticated(tok)
  /\ resp' = Resp("getNotifications", 200, tok.id, NullId,
                  Formatted(SortByCreatedAtDesc(ForUser(tok.id)), tok.id))
  /\ UNCHANGED <<users, tokens, notifications, miqaats, regs, charts, pending, rev,
                 payments, today, sweeps, joins, txns, attendances, marks>>

IdleReg == [pc |-> "idle", miqaat |-> 0, memberId |-> NullStr, who |-> NullId]

\* ------------------------------------------------------ event attendance
\* miqaat.attendance.find((a) => a.member.toString() === memberId)
alreadyExists(attendance, memberId) ==
  \E i \in 1..Len(attendance) : ToHexString(attendance[i].member) = memberId

\* the entry pushed by a request; checkIn stands for the request's clock reading
NewAttendance(memberId, clock) ==
  [member |-> CastObjectId(memberId), status |-> "Present", checkIn |-> clock]

\* the part of registerMiqaatAttendance up to its in-memory check
RegOutcome(m, memberId) ==
  IF memberId = NullStr THEN "400"
  ELSE IF m > Len(miqaats) THEN "404"
  ELSE IF alreadyExists(miqaats[m].attendance, memberId) THEN "already"
  ELSE "push"

RegEarlyResp(tok, m, memberId) ==
  LET o == RegOutcome(m, memberId)
  IN IF o = "400" THEN RespArg("registerAttendance", 400, tok.id, m, memberId, "memberId is required.")
     ELSE IF o = "404" THEN RespArg("registerAttendance", 404, tok.id, m, memberId, "Miqaat not found")
     ELSE RespArg("registerAttendance", 200, tok.id, m, memberId, "Already registered for Khidmat.")

\* miqaat.save(): the pushed entry is cast by the schema and sent as a $push
\* on the stored array; a member that does not cast fails validation
SaveCasts(memberId) == isValidObjectId(memberId)

Pushed(m, memberId, clock) ==
  [miqaats EXCEPT ![m].attendance = Append(@, NewAttendance(memberId, clock))]

\* POST /miqaat/:id/attendance, first await: findById and the duplicate check
regFind(r, tok, m, memberId) ==
  /\ Authenticated(tok)
  /\ regs[r].pc = "idle"
  /\ IF RegOutcome(m, memberId) = "push" THEN
       /\ regs' = [regs EXCEPT ![r] = [pc |-> "save", miqaat |-> m, memberId |-> memberId, who |-> tok.id]]
       /\ UNCHANGED resp
     ELSE
       /\ resp' = RegEarlyResp(tok, m, memberId)
       /\ UNCHANGED regs
  /\ UNCHANGED <<users, tokens, notifications, miqaats, charts, pending, rev, payments, today, sweeps, joins, txns, attendances, marks>>

\* POST /miqaat/:id/attendance, second await: save and respond
regSave(r) ==
  /\ regs[r].pc = "save"
  /\ LET q == regs[r]
     IN IF SaveCasts(q.memberId) THEN
          /\ miqaats' = Pushed(q.miqaat, q.memberId, r)
          /\ resp' = RespArg("registerAttendance", 200, q.who, q.miqaat, q.memberId,
                             "Registered for Khidmat successfully.")
        ELSE
          /\ resp' = RespArg("registerAttendance", 500, q.who, q.miqaat, q.memberId, "Server error")
          /\ UNCHANGED miqaats
  /\ regs' = [regs EXCEPT ![r] = IdleReg]
  /\ UNCHANGED <<users, tokens, notifications, charts, pending, rev, payments, today, sweeps, joins, txns, attendances, marks>>

\* the whole handler, run with no other request in between
registerMiqaatAttendance(tok, m, memberId) ==
  /\ Authenticated(tok)
  /\ IF RegOutcome(m, memberId) # "push" THEN
       /\ resp' = RegEarlyResp(tok, m, memberId)
       /\ UNCHANGED miqaats
     ELSE IF SaveCasts(memberId) THEN
       /\ miqaats' = Pushed(m, memberId, 1)
       /\ resp' = RespArg("registerAttendance", 200, tok.id, m, memberId,
                          "Registered for Khidmat successfully.")
     ELSE
       /\ resp' = RespArg("registerAttendance", 500, tok.id, m, memberId, "Server error")
       /\ UNCHANGED miqaats
  /\ UNCHANGED <<users, tokens, notifications, regs, charts, pending, rev, payments, today, sweeps, joins, txns, attendances, marks>>

\* ------------------------------------------------------------ duty charts
NoPending == [kind |-> "none", tok |-> <<>>, idx |-> 0, body |-> <<>>]

\* The repository holds three revisions of the duty chart controller; rev
\* says which one the build runs.  Revisions 1 and 3 populate through
\* ObjectId references (stored values are cast), revision 2 keeps the Mixed
\* values as they were sent.
NoAssignment == [inchargeOfficer |-> NullStr, subInchargeOfficer |-> NullStr, members |-> <<>>]

\* a request body: fieldsOk says that eventName, dutyDate, reportingTime and
\* dressCode are present; an absent or empty reference is NullStr
EventNames == {"Urs", "Milad"}

DutyDates == {1, 2}

Body(fieldsOk, j, f, x) ==
  [fieldsOk |-> fieldsOk,
   eventName |-> "Urs",
   dutyDate |-> 1,
   jamiatIncharge |-> j,
   captain |-> IF f = "captain" THEN x ELSE NullStr,
   viceCaptain |-> IF f = "viceCaptain" THEN x ELSE NullStr,
   hasAssignments |-> f \in {"inchargeOfficer", "subInchargeOfficer", "member"},
   assignments |->
     IF f = "inchargeOfficer" THEN <<[NoAssignment EXCEPT !.inchargeOfficer = x]>>
     ELSE IF f = "subInchargeOfficer" THEN <<[NoAssignment EXCEPT !.subInchargeOfficer = x]>>
     ELSE IF f = "member" THEN <<[NoAssignment EXCEPT !.members = <<x>>]>>
     ELSE <<>>]

RECURSIVE SeqKeep(_, _)
SeqKeep(s, S) ==
  IF s = <<>> THEN <<>>
  ELSE IF Head(s) \in S THEN <<Head(s)>> \o SeqKeep(Tail(s), S)
       ELSE SeqKeep(Tail(s), S)

AllStrings == HexStrings \cup UpperStrings \cup TextStrings

ValidStrings == {s \in AllStrings : isValidObjectId(s)}

\* revision 3 keeps a reference only when it is a valid ObjectId
ValidOrNull(s) == IF s # NullStr /\ isValidObjectId(s) THEN s ELSE NullStr

sanitizeAssignment(a) ==
  IF rev = 3
  THEN [inchargeOfficer |-> ValidOrNull(a.inchargeOfficer),
        subInchargeOfficer |-> ValidOrNull(a.subInchargeOfficer),
        members |-> SeqKeep(a.members, ValidStrings)]
  ELSE [inchargeOfficer |-> a.inchargeOfficer,
        subInchargeOfficer |-> a.subInchargeOfficer,
        members |-> SeqKeep(a.members, AllStrings)]

\* the payload createDutyChart builds from the body
Payload(body) ==
  [jamiatIncharge |-> IF rev = 3 THEN ValidOrNull(body.jamiatIncharge) ELSE body.jamiatIncharge,
   captain |-> body.captain,
   viceCaptain |-> body.viceCaptain,
   assignments |-> [k \in 1..Len(body.assignments) |-> sanitizeAssignment(body.assignments[k])],
   eventName |-> body.eventName,
   dutyDate |-> body.dutyDate]

\* every reference value held by a payload or a stored chart
AssignmentRefs(a) == {a.inchargeOfficer, a.subInchargeOfficer} \cup Range(a.members)

ChartRefs(c) ==
  ({c.jamiatIncharge, c.captain, c.viceCaptain}
     \cup UNION {AssignmentRefs(c.assignments[k]) : k \in 1..Len(c.assignments)}) \ {NullStr}

\* referencedUserIds: revision 1 collects every supplied reference, revisions
\* 2 and 3 only those that are valid ObjectIds
referencedUserIds(c) ==
  IF rev = 1 THEN ChartRefs(c) ELSE {s \in ChartRefs(c) : isValidObjectId(s)}

\* User.find({_id: {$in: refs}}): the users whose id some reference casts to
FoundUsers(refs) == {n \in ObjectIds : Exists(n) /\ \E s \in refs : CastObjectId(s) = n}

\* refs.filter((id) => !found.includes(String(id)))
Missing(refs) == {s \in refs : s \notin {ToHexString(n) : n \in FoundUsers(refs)}}

\* the outcome of the existence check: "cast" when the query cannot cast a
\* reference, "missing" when the counts differ, "ok" otherwise
CheckRefs(refs) ==
  IF \E s \in refs : ~isValidObjectId(s) THEN "cast"
  ELSE IF Cardinality(FoundUsers(refs)) # Cardinality(refs) THEN "missing"
  ELSE "ok"

\* what the schema stores for a reference: cast to an ObjectId (written here
\* in its hex form) or, for a Mixed path, the value as sent
StoreRef(s, mixed) == IF s = NullStr \/ mixed THEN s ELSE ToHexString(CastObjectId(s))

StoreAssignment(a) ==
  [inchargeOfficer |-> StoreRef(a.inchargeOfficer, rev = 2),
   subInchargeOfficer |-> StoreRef(a.subInchargeOfficer, rev = 2),
   members |-> [k \in 1..Len(a.members) |-> StoreRef(a.members[k], rev = 2)]]

StoreChart(c, createdBy) ==
  [jamiatIncharge |-> StoreRef(c.jamiatIncharge, rev = 2),
   captain |-> StoreRef(c.captain, rev = 2),
   viceCaptain |-> StoreRef(c.viceCaptain, rev = 2),
   assignments |-> [k \in 1..Len(c.assignments) |-> StoreAssignment(c.assignments[k])],
   eventName |-> c.eventName,
   dutyDate |-> c.dutyDate,
   createdBy |-> createdBy]

\* a save fails when the required jamiatIncharge is null or, under the
\* ObjectId schema, when a value cannot be cast
SaveFails(c) ==
  \/ c.jamiatIncharge = NullStr
  \/ rev # 2 /\ \E s \in ChartRefs(c) : ~isValidObjectId(s)

DutyArg(tok, body) == [role |-> tok.role, body |-> body]

DutyResp(op, status, tok, tgt, body, info) ==
  RespArg(op, status, tok.id, tgt, DutyArg(tok, body), info)

\* createDutyChart up to the existence query: the checks that answer at once
CreateEarly(tok, body) ==
  LET p == Payload(body)
      refs == referencedUserIds(p)
  IN IF ~allowRoles({"SuperAdmin", "Admin"}, tok) \/ ~isAdminOrSuper(tok.role) THEN "403"
     ELSE IF ~body.fieldsOk THEN "400"
     ELSE IF rev \in {1, 2} /\ p.jamiatIncharge = NullStr THEN "400"
     ELSE IF CheckRefs(refs) = "cast" THEN "500"
     ELSE IF CheckRefs(refs) = "missing" THEN "missing"
     ELSE "save"

\* POST /dutychart: role check, required fields and existence query
createDutyChartBegin(tok, body) ==
  /\ Authenticated(tok)
  /\ pending.kind = "none"
  /\ LET o == CreateEarly(tok, body)
     IN IF o = "save" THEN
          /\ pending' = [kind |-> "create", tok |-> tok, idx |-> 0, body |-> body]
          /\ UNCHANGED resp
        ELSE
          /\ resp' = IF o = "403" THEN DutyResp("createDutyChart", 403, tok, 0, body, {})
                     ELSE IF o = "400" THEN DutyResp("createDutyChart", 400, tok, 0, body, {})
                     ELSE IF o = "500" THEN DutyResp("createDutyChart", 500, tok, 0, body, {})
                     ELSE DutyResp("createDutyChart", 400, tok, 0, body,
                                   Missing(referencedUserIds(Payload(body))))
          /\ UNCHANGED pending
  /\ UNCHANGED <<users, tokens, notifications, miqaats, regs, charts, rev, payments, today, sweeps, joins, txns, attendances, marks>>

\* POST /dutychart: save, commit and answer
createDutyChartCommit ==
  /\ pending.kind = "create"
  /\ LET p == Payload(pending.body)
     IN IF SaveFails(p) THEN
          /\ resp' = DutyResp("createDutyChart", 500, pending.tok, 0, pending.body, {})
          /\ UNCHANGED charts
        ELSE
          /\ charts' = Append(charts, StoreChart(p, pending.tok.id))
          /\ resp' = DutyResp("createDutyChart", 201, pending.tok, Len(charts) + 1, pending.body, {})
  /\ pending' = NoPending
  /\ UNCHANGED <<users, tokens, notifications, miqaats, regs, rev, payments, today, sweeps, joins, txns, attendances, marks>>

\* the references updateDutyChart of revision 1 checks: only when the body
\* carries an assignments array
UpdateRefs(body) ==
  IF rev = 1 /\ body.hasAssignments THEN ChartRefs(body) ELSE {}

\* the chart after the update's assignments, as the revision writes them
Updated(chart, body) ==
  LET norm == Payload(body)
  IN IF rev = 1 THEN
       [chart EXCEPT
          !.jamiatIncharge = IF body.jamiatIncharge # NullStr THEN body.jamiatIncharge ELSE @,
          !.captain = IF body.captain # NullStr \/ body.viceCaptain # NullStr
                      THEN body.captain ELSE @,
          !.viceCaptain = IF body.captain # NullStr \/ body.viceCaptain # NullStr
                          THEN body.viceCaptain ELSE @,
          !.assignments = IF body.hasAssignments THEN body.assignments ELSE @]
     ELSE IF rev = 2 THEN
       [chart EXCEPT
          !.jamiatIncharge = IF body.jamiatIncharge # NullStr THEN body.jamiatIncharge ELSE @,
          !.captain = IF body.captain # NullStr THEN body.captain ELSE @,
          !.viceCaptain = IF body.viceCaptain # NullStr THEN body.viceCaptain ELSE @,
          !.assignments = IF Len(body.assignments) > 0 THEN norm.assignments ELSE @]
     ELSE
       [chart EXCEPT
          !.jamiatIncharge = IF norm.jamiatIncharge # NullStr THEN norm.jamiatIncharge ELSE @,
          !.assignments = IF Len(body.assignments) > 0 THEN norm.assignments ELSE @]

UpdateEarly(tok, id, body) ==
  IF ~allowRoles({"SuperAdmin", "Admin"}, tok) \/ ~isAdminOrSuper(tok.role) THEN "403"
  ELSE IF id > Len(charts) THEN "404"
  ELSE IF CheckRefs(UpdateRefs(body)) = "cast" THEN "500"
  ELSE IF CheckRefs(UpdateRefs(body)) = "missing" THEN "missing"
  ELSE "save"

\* PUT /dutychart/:id: role check, findById and, in revision 1, existence query
updateDutyChartBegin(tok, id, body) ==
  /\ Authenticated(tok)
  /\ pending.kind = "none"
  /\ LET o == UpdateEarly(tok, id, body)
     IN IF o = "save" THEN
          /\ pending' = [kind |-> "update", tok |-> tok, idx |-> id, body |-> body]
          /\ UNCHANGED resp
        ELSE
          /\ resp' = IF o = "403" THEN DutyResp("updateDutyChart", 403, tok, id, body, {})
                     ELSE IF o = "404" THEN DutyResp("updateDutyChart", 404, tok, id, body, {})
                     ELSE IF o = "500" THEN DutyResp("updateDutyChart", 500, tok, id, body, {})
                     ELSE DutyResp("updateDutyChart", 400, tok, id, body, Missing(UpdateRefs(body)))
          /\ UNCHANGED pending
  /\ UNCHANGED <<users, tokens, notifications, miqaats, regs, charts, rev, payments, today, sweeps, joins, txns, attendances, marks>>

\* PUT /dutychart/:id: save, commit and answer
updateDutyChartCommit ==
  /\ pending.kind = "update"
  /\ LET c == Updated(charts[pending.idx], pending.body)
     IN IF SaveFails(c) THEN
          /\ resp' = DutyResp("updateDutyChart", 500, pending.tok, pending.idx, pending.body, {})
          /\ UNCHANGED charts
        ELSE
          /\ charts' = [charts EXCEPT ![pending.idx] = StoreChart(c, @.createdBy)]
          /\ resp' = DutyResp("updateDutyChart", 200, pending.tok, pending.idx, pending.body, {})
  /\ pending' = NoPending
  /\ UNCHANGED <<users, tokens, notifications, miqaats, regs, rev, payments, today, sweeps, joins, txns, attendances, marks>>

\* the members a read of the chart yields: populate (revisions 1 and 3)
\* drops the references that resolve to no user
ReadMembers(a) ==
  IF rev = 2 THEN Range(a.members)
  ELSE {s \in Range(a.members) : Exists(CastObjectId(s))}

\* chart.assignments.some((a) => a.members.some((m) => String(m) === String(req.user.id)))
isAssigned(chart, tok) ==
  \E k \in 1..Len(chart.assignments) :
    \E s \in ReadMembers(chart.assignments[k]) : s = ToHexString(tok.id)

\* the handler getDutyChartById, past the access gate
getDutyChartByIdHandler(tok, id) ==
  IF id > Len(charts) THEN 404
  ELSE IF isMember(tok.role) /\ ~isAssigned(charts[id], tok) THEN 403
  ELSE 200

\* GET /dutychart/:id behind auth and allowRoles("SuperAdmin", "Admin")
getDutyChartById(tok, id) ==
  /\ Authenticated(tok)
  /\ resp' = IF ~allowRoles({"SuperAdmin", "Admin"}, tok)
             THEN DutyResp("getDutyChartById", 403, tok, id, <<>>, {})
             ELSE DutyResp("getDutyChartById", getDutyChartByIdHandler(tok, id), tok, id, <<>>, {})
  /\ UNCHANGED <<users, tokens, notifications, miqaats, regs, charts, pending, rev, payments, today, sweeps, joins, txns, attendances, marks>>

\* ------------------------------------------------- duty chart transactions
\* One request of createDutyChart, updateDutyChart or addAssignment followed
\* through its session.  state is the transaction's state ("none" before
\* startTransaction, then "open", "committed" or "aborted"), ended says that
\* endSession() ran, overtaken names the handler whose transaction committed a
\* write to the chart after this one read it ("" when there is none).
NoTxn ==
  [pc |-> "idle", op |-> "", tok |-> <<>>, idx |-> 0, body |-> <<>>,
   state |-> "none", ended |-> FALSE, overtaken |-> ""]

Session(state, ended) == [state |-> state, ended |-> ended]

\* the catch block: abortTransaction() and endSession() before the answer,
\* except in createDutyChart of revisions 2 and 3
CatchAborts(op) == op # "createDutyChart" \/ rev = 1

\* the session as the catch block leaves it when the transaction is open
Caught(op) == IF CatchAborts(op) THEN Session("aborted", TRUE) ELSE Session("open", FALSE)

\* refs of addAssignment: an array, so a repeated id counts twice
AddRefs(a) ==
  (IF a.inchargeOfficer # NullStr THEN <<a.inchargeOfficer>> ELSE <<>>)
    \o (IF a.subInchargeOfficer # NullStr THEN <<a.subInchargeOfficer>> ELSE <<>>)
    \o a.members

AddEarly(tok, id, body) ==
  LET refs == AddRefs(body.assignment)
  IN IF ~isAdminOrSuper(tok.role) THEN "403"
     ELSE IF ~body.fieldsOk THEN "400"
     ELSE IF id > Len(charts) THEN "404"
     ELSE IF \E s \in Range(refs) : ~isValidObjectId(s) THEN "500"
     ELSE IF Cardinality(FoundUsers(Range(refs))) # Len(refs) THEN "missing"
     ELSE "save"

TxnEarly(op, tok, id, body) ==
  IF op = "createDutyChart" THEN CreateEarly(tok, body)
  ELSE IF op = "updateDutyChart" THEN UpdateEarly(tok, id, body)
  ELSE AddEarly(tok, id, body)

\* the answers given before startTransaction() leave the session untouched;
\* the others are given with the transaction aborted or by the catch block
EarlyAnswer(op, o) ==
  IF o = "403" THEN [status |-> 403, session |-> Session("none", FALSE)]
  ELSE IF o = "400" THEN [status |-> 400, session |-> Session("none", FALSE)]
  ELSE IF o = "404" THEN [status |-> 404, session |-> Session("aborted", TRUE)]
  ELSE IF o = "missing" THEN [status |-> 400, session |-> Session("aborted", TRUE)]
  ELSE [status |-> 500, session |-> Caught(op)]

\* the handler up to the end of its reads inside the transaction
txnBegin(t, op, tok, id, body) ==
  /\ txns[t].pc = "idle"
  /\ Authenticated(tok)
  /\ op = "addAssignment" => rev = 1
  /\ LET o == TxnEarly(op, tok, id, body)
     IN IF o = "save" THEN
          /\ txns' = [txns EXCEPT ![t] = [pc |-> "save", op |-> op, tok |-> tok, idx |-> id,
                                          body |-> body, state |-> "open", ended |-> FALSE,
                                          overtaken |-> ""]]
          /\ UNCHANGED resp
        ELSE
          /\ resp' = DutyResp(op, EarlyAnswer(op, o).status, tok, id, body, EarlyAnswer(op, o).session)
          /\ UNCHANGED txns
  /\ UNCHANGED <<users, tokens, notifications, miqaats, regs, charts, pending, rev, payments,
                 today, sweeps, joins, attendances, marks>>

\* the document the handler saves
TxnDoc(x) ==
  IF x.op = "createDutyChart" THEN Payload(x.body)
  ELSE IF x.op = "updateDutyChart" THEN Updated(charts[x.idx], x.body)
  ELSE [charts[x.idx] EXCEPT !.assignments = Append(@, x.body.assignment)]

\* a write to a document that another transaction changed after this one
\* read it is refused with a WriteConflict error
WriteConflict(x) == x.overtaken # ""

\* the other open transactions that read the chart this one writes
Overtaken(t) ==
  {u \in (1..MaxTxns) \ {t} : txns[u].pc = "save" /\ txns[u].op # "createDutyChart"
                               /\ txns[u].idx = txns[t].idx}

\* save({session}), commitTransaction(), endSession()
txnSave(t) ==
  /\ txns[t].pc = "save"
  /\ LET x == txns[t]
         doc == TxnDoc(x)
     IN IF (x.op # "createDutyChart" /\ WriteConflict(x)) \/ SaveFails(doc) THEN
          /\ resp' = DutyResp(x.op, 500, x.tok, x.idx, x.body, Caught(x.op))
          /\ txns' = [txns EXCEPT ![t] = NoTxn]
          /\ UNCHANGED charts
        ELSE IF x.op = "createDutyChart" THEN
          /\ charts' = Append(charts, StoreChart(doc, x.tok.id))
          /\ txns' = [txns EXCEPT ![t] = [x EXCEPT !.pc = "read", !.idx = Len(charts) + 1,
                                                   !.state = "committed", !.ended = TRUE]]
          /\ UNCHANGED resp
        ELSE
          /\ charts' = [charts EXCEPT ![x.idx] = StoreChart(doc, @.createdBy)]
          /\ txns' = [u \in 1..MaxTxns |->
                        IF u = t THEN [x EXCEPT !.pc = "read", !.state = "committed", !.ended = TRUE]
                        ELSE IF u \in Overtaken(t) THEN [txns[u] EXCEPT !.overtaken = x.op]
                        ELSE txns[u]]
          /\ UNCHANGED resp
  /\ UNCHANGED <<users, tokens, notifications, miqaats, regs, pending, rev, payments, today,
                 sweeps, joins, attendances, marks>>

Success(op) == IF op = "updateDutyChart" THEN 200 ELSE 201

\* the read after the commit and the answer.  When the read throws, the catch
\* block of revisions 2 and 3 of createDutyChart answers 500; the other catch
\* blocks call abortTransaction() on the committed transaction, which throws
\* in its turn, and the request is answered by the framework's error handler
\* or not at all (status 0), as the build has it.
txnRead(t, readFails, handled) ==
  /\ txns[t].pc = "read"
  /\ LET x == txns[t]
         status == IF ~readFails THEN Success(x.op)
                   ELSE IF ~CatchAborts(x.op) \/ handled THEN 500
                   ELSE 0
     IN resp' = DutyResp(x.op, status, x.tok, x.idx, x.body, Session(x.state, x.ended))
  /\ txns' = [txns EXCEPT ![t] = NoTxn]
  /\ UNCHANGED <<users, tokens, notifications, miqaats, regs, charts, pending, rev, payments,
                 today, sweeps, joins, attendances, marks>>

\* ---------------------------------------------------------- QR attendance
\* The attendance sessions are the ids 1..MaxSessions; a request names one of
\* them, none (0) or an id that finds nothing.  sessionOpen is what the
\* handler's test of isActive and expiresAt against its clock yields.
SessionIds == 1..MaxSessions

NoSession == 0

IdleMark == [pc |-> "idle", session |-> NoSession, member |-> NullId]

\* the unique index on {session, member}: a save of a pair already stored is
\* refused with error code 11000
DuplicatePair(session, member) ==
  \E i \in 1..Len(attendances) : attendances[i].session = session /\ attendances[i].member = member

NewRecord(session, member) == [session |-> session, member |-> member, status |-> "Present"]

\* POST /attendance/mark up to its await of Attendance.findOne
markFind(r, tok, sessionCode, sessionOpen) ==
  /\ Authenticated(tok)
  /\ marks[r].pc = "idle"
  /\ IF tok.role # "Member" THEN
       /\ resp' = Resp("POST /attendance/mark", 403, tok.id, sessionCode, "Only members can mark attendances.")
       /\ UNCHANGED marks
     ELSE IF sessionCode = NoSession THEN
       /\ resp' = Resp("POST /attendance/mark", 400, tok.id, sessionCode, "QR session code required.")
       /\ UNCHANGED marks
     ELSE IF sessionCode \notin SessionIds THEN
       /\ resp' = Resp("POST /attendance/mark", 404, tok.id, sessionCode, "Invalid session code.")
       /\ UNCHANGED marks
     ELSE IF ~sessionOpen THEN
       /\ resp' = Resp("POST /attendance/mark", 400, tok.id, sessionCode, "QR code has expired.")
       /\ UNCHANGED marks
     ELSE IF DuplicatePair(sessionCode, tok.id) THEN
       /\ resp' = Resp("POST /attendance/mark", 400, tok.id, sessionCode,
                       "Attendance already marked for this session.")
       /\ UNCHANGED marks
     ELSE
       /\ marks' = [marks EXCEPT ![r] = [pc |-> "save", session |-> sessionCode, member |-> tok.id]]
       /\ UNCHANGED resp
  /\ UNCHANGED <<users, tokens, notifications, miqaats, regs, charts, pending, rev, payments,
                 today, sweeps, joins, txns, attendances>>

\* POST /attendance/mark, record.save() and the answer; the catch block
\* answers 500 whatever the error
markSave(r) ==
  /\ marks[r].pc = "save"
  /\ LET q == marks[r]
     IN IF DuplicatePair(q.session, q.member) THEN
          /\ resp' = Resp("POST /attendance/mark", 500, q.member, q.session, "Server error")
          /\ UNCHANGED attendances
        ELSE
          /\ attendances' = Append(attendances, NewRecord(q.session, q.member))
          /\ resp' = Resp("POST /attendance/mark", 200, q.member, q.session,
                          "Attendance marked successfully")
  /\ marks' = [marks EXCEPT ![r] = IdleMark]
  /\ UNCHANGED <<users, tokens, notifications, miqaats, regs, charts, pending, rev, payments,
                 today, sweeps, joins, txns>>

\* POST /attendance/mark/:sessionId: no lookup of its own, the duplicate-key
\* error of the save is answered 400
markBySession(tok, sessionId, sessionOpen) ==
  /\ Authenticated(tok)
  /\ IF tok.role # "Member" THEN
       /\ resp' = Resp("POST /attendance/mark/:sessionId", 403, tok.id, sessionId,
                       "Only members can mark attendances")
       /\ UNCHANGED attendances
     ELSE IF sessionId \notin SessionIds THEN
       /\ resp' = Resp("POST /attendance/mark/:sessionId", 404, tok.id, sessionId, "Session not found")
       /\ UNCHANGED attendances
     ELSE IF ~sessionOpen THEN
       /\ resp' = Resp("POST /attendance/mark/:sessionId", 400, tok.id, sessionId, "Session expired")
       /\ UNCHANGED attendances
     ELSE IF DuplicatePair(sessionId, tok.id) THEN
       /\ resp' = Resp("POST /attendance/mark/:sessionId", 400, tok.id, sessionId,
                       "Attendance already marked")
       /\ UNCHANGED attendances
     ELSE
       /\ attendances' = Append(attendances, NewRecord(sessionId, tok.id))
       /\ resp' = Resp("POST /attendance/mark/:sessionId", 201, tok.id, sessionId,
                       "Attendance marked successfully")
  /\ UNCHANGED <<users, tokens, notifications, miqaats, regs, charts, pending, rev, payments,
                 today, sweeps, joins, txns, marks>>

\* ------------------------------------------------------- listing charts
\* a query string: search "" and from/to 0 stand for an absent parameter
Searches == {"", "urs", "milad"}

Queries == [search : Searches, from : DutyDates \cup {0}, to : DutyDates \cup {0}]

Title == "Burhani Guards Ujjain Duty Chart"

\* { $regex: search, $options: "i" } on the texts the model holds
RegexI(search, text) ==
  \/ search = "urs" /\ text = "Urs"
  \/ search = "milad" /\ text = "Milad"

\* the dutyDate condition of the query
InDateRange(chart, q) ==
  /\ q.from # 0 => chart.dutyDate >= q.from
  /\ q.to # 0 => chart.dutyDate <= q.to

\* { "assignments.members": req.user.id }
MemberClause(chart, tok) ==
  \E k \in 1..Len(chart.assignments) :
    \E s \in Range(chart.assignments[k].members) : s = ToHexString(tok.id)

\* revision 1 collects the search clauses in q.$or and pushes the member
\* clause onto the same $or; revisions 2 and 3 add the member clause as a
\* field of the query of its own
MatchesQuery(chart, q, tok) ==
  /\ InDateRange(chart, q)
  /\ IF rev = 1
     THEN \/ q.search = "" /\ ~isMember(tok.role)
          \/ q.search # "" /\ (RegexI(q.search, chart.eventName) \/ RegexI(q.search, Title))
          \/ isMember(tok.role) /\ MemberClause(chart, tok)
     ELSE /\ q.search # "" => RegexI(q.search, chart.eventName)
          /\ isMember(tok.role) => MemberClause(chart, tok)

\* the controller getAllDutyCharts, called with req.user set by auth
getAllDutyChartsHandler(tok, q) ==
  /\ Authenticated(tok)
  /\ resp' = DutyResp("getAllDutyChartsHandler", 200, tok, 0, q,
                      {c \in 1..Len(charts) : MatchesQuery(charts[c], q, tok)})
  /\ UNCHANGED <<users, tokens, notifications, miqaats, regs, charts, pending, rev, payments, today, sweeps, joins, txns, attendances, marks>>

\* GET /dutychart behind auth and allowRoles("SuperAdmin", "Admin")
getAllDutyCharts(tok, q) ==
  /\ Authenticated(tok)
  /\ resp' = IF ~allowRoles({"SuperAdmin", "Admin"}, tok)
             THEN DutyResp("getAllDutyCharts", 403, tok, 0, q, {})
             ELSE DutyResp("getAllDutyCharts", 200, tok, 0, q,
                           {c \in 1..Len(charts) : MatchesQuery(charts[c], q, tok)})
  /\ UNCHANGED <<users, tokens, notifications, miqaats, regs, charts, pending, rev, payments, today, sweeps, joins, txns, attendances, marks>>

\* -------------------------------------------------------------- the ledger
FinanceRoles == {"SuperAdmin", "Admin", "Finance"}

\* the mutant of calculateSubscriptionYear that compares the months only
calculateSubscriptionYearByMonth(registrationDate, now) ==
  LET monthDiff == now.m - registrationDate.m
      yearsSince == IF monthDiff < 0
                    THEN now.y - registrationDate.y - 1
                    ELSE now.y - registrationDate.y
      startYear == registrationDate.y + yearsSince
  IN <<startYear, startYear + 1>>

\* calculateSubscriptionYear(registrationDate) evaluated on the day now; the
\* label `${startYear}-${startYear + 1}` is the pair of its two years
calculateSubscriptionYear(registrationDate, now) ==
  LET monthDiff == now.m - registrationDate.m
      yearsSince == IF monthDiff < 0 \/ (monthDiff = 0 /\ now.d < registrationDate.d)
                    THEN now.y - registrationDate.y - 1
                    ELSE now.y - registrationDate.y
      startYear == registrationDate.y + yearsSince
  IN <<startYear, startYear + 1>>

NoDate == Date(0, 0, 0)

\* the Payment model: the status enumeration its save validates
PaymentStatuses == {"Pending", "Paid", "Overdue"}

SavesPayment(payment) == payment.status \in PaymentStatuses

\* the payment bulk-dues builds for a member
DuePayment(n, tok) ==
  [memberId |-> n,
   paymentType |-> "Annual Subscription",
   status |-> "Pending",
   subscriptionYear |-> calculateSubscriptionYear(users[n].createdAt, today),
   paidDate |-> NoDate,
   receiptNumber |-> "",
   recordedBy |-> tok.id,
   autoGenerated |-> FALSE]

\* User.findById(memberId): "cast" when the id cannot be cast, "none" when
\* no user has it (null finds nothing), "found" otherwise
FindUser(memberId) ==
  IF memberId = NullStr THEN "none"
  ELSE IF ~isValidObjectId(memberId) THEN "cast"
  ELSE IF Exists(CastObjectId(memberId)) THEN "found"
  ELSE "none"

\* the loop of bulk-dues over memberIds, from the ledger pays and the
\* results so far
RECURSIVE BulkDuesLoop(_, _, _, _, _)
BulkDuesLoop(memberIds, tok, pays, success, failed) ==
  IF memberIds = <<>> THEN [payments |-> pays, success |-> success, failed |-> failed]
  ELSE
    LET memberId == Head(memberIds)
        found == FindUser(memberId)
    IN IF found = "none" THEN
         BulkDuesLoop(Tail(memberIds), tok, pays, success,
                      Append(failed, [memberId |-> memberId, reason |-> "Member not found"]))
       ELSE IF found = "cast" THEN
         BulkDuesLoop(Tail(memberIds), tok, pays, success,
                      Append(failed, [memberId |-> memberId, reason |-> "Cast to ObjectId failed"]))
       ELSE IF ~SavesPayment(DuePayment(CastObjectId(memberId), tok)) THEN
         BulkDuesLoop(Tail(memberIds), tok, pays, success,
                      Append(failed, [memberId |-> memberId, reason |-> "Payment validation failed"]))
       ELSE
         BulkDuesLoop(Tail(memberIds), tok,
                      Append(pays, DuePayment(CastObjectId(memberId), tok)),
                      Append(success, [memberId |-> memberId, paymentId |-> Len(pays) + 1]),
                      failed)

LedgerArg(tok, body) == [role |-> tok.role, body |-> body]

\* bulk-dues checking the amount only after its loop has saved
bulkDuesLateCheck(tok, memberIds, amount) ==
  /\ Authenticated(tok)
  /\ LET body == [memberIds |-> memberIds, amount |-> amount]
         done == BulkDuesLoop(memberIds, tok, payments, <<>>, <<>>)
     IN IF ~allowRoles(FinanceRoles, tok) THEN
          /\ resp' = RespArg("bulkDues", 403, tok.id, 0, LedgerArg(tok, body), "Access denied")
          /\ UNCHANGED payments
        ELSE IF Len(memberIds) = 0 THEN
          /\ resp' = RespArg("bulkDues", 400, tok.id, 0, LedgerArg(tok, body), "No members selected")
          /\ UNCHANGED payments
        ELSE IF amount <= 0 THEN
          /\ resp' = RespArg("bulkDues", 400, tok.id, 0, LedgerArg(tok, body), "Invalid amount")
          /\ payments' = done.payments
        ELSE
          /\ payments' = done.payments
          /\ resp' = RespArg("bulkDues", 200, tok.id, 0, LedgerArg(tok, body),
                             [success |-> done.success, failed |-> done.failed])
  /\ UNCHANGED <<users, tokens, notifications, miqaats, regs, charts, pending, rev, today, sweeps, joins, txns, attendances, marks>>

\* POST /bulk-dues behind auth and allowRoles("SuperAdmin", "Admin", "Finance")
bulkDues(tok, memberIds, amount) ==
  /\ Authenticated(tok)
  /\ LET body == [memberIds |-> memberIds, amount |-> amount]
         done == BulkDuesLoop(memberIds, tok, payments, <<>>, <<>>)
     IN IF ~allowRoles(FinanceRoles, tok) THEN
          /\ resp' = RespArg("bulkDues", 403, tok.id, 0, LedgerArg(tok, body), "Access denied")
          /\ UNCHANGED payments
        ELSE IF Len(memberIds) = 0 THEN
          /\ resp' = RespArg("bulkDues", 400, tok.id, 0, LedgerArg(tok, body), "No members selected")
          /\ UNCHANGED payments
        ELSE IF amount <= 0 THEN
          /\ resp' = RespArg("bulkDues", 400, tok.id, 0, LedgerArg(tok, body), "Invalid amount")
          /\ UNCHANGED payments
        ELSE
          /\ payments' = done.payments
          /\ resp' = RespArg("bulkDues", 200, tok.id, 0, LedgerArg(tok, body),
                             [success |-> done.success, failed |-> done.failed])
  /\ UNCHANGED <<users, tokens, notifications, miqaats, regs, charts, pending, rev, today, sweeps, joins, txns, attendances, marks>>

\* Payment.findById(paymentId): "cast", "none" or "found"
FindPayment(paymentId, pays) ==
  IF paymentId = NullStr THEN "none"
  ELSE IF ~isValidObjectId(paymentId) THEN "cast"
  ELSE IF CastObjectId(paymentId) <= Len(pays) THEN "found"
  ELSE "none"

\* the mutant of MarkPaid that never generates a receipt number
MarkPaidNoReceipt(payment, generated) ==
  [payment EXCEPT !.status = "Paid", !.paidDate = today]

\* the update bulk-mark-paid applies to one payment; generated is the value
\* of `RCP${Date.now()}${Math.floor(Math.random() * 1000)}` at that moment
MarkPaid(payment, generated) ==
  [payment EXCEPT !.status = "Paid",
                  !.paidDate = today,
                  !.receiptNumber = IF @ = "" THEN generated ELSE @]

\* the loop of bulk-mark-paid over paymentIds; generated[k] is the receipt
\* number generated for the k-th of the items still to do
RECURSIVE BulkMarkPaidLoop(_, _, _, _, _)
BulkMarkPaidLoop(paymentIds, generated, pays, success, failed) ==
  IF paymentIds = <<>> THEN [payments |-> pays, success |-> success, failed |-> failed]
  ELSE
    LET paymentId == Head(paymentIds)
        found == FindPayment(paymentId, pays)
        p == CastObjectId(paymentId)
    IN IF found = "none" THEN
         BulkMarkPaidLoop(Tail(paymentIds), Tail(generated), pays, success,
                          Append(failed, [paymentId |-> paymentId, reason |-> "Payment not found"]))
       ELSE IF found = "cast" THEN
         BulkMarkPaidLoop(Tail(paymentIds), Tail(generated), pays, success,
                          Append(failed, [paymentId |-> paymentId, reason |-> "Cast to ObjectId failed"]))
       ELSE IF ~SavesPayment(MarkPaid(pays[p], Head(generated))) THEN
         BulkMarkPaidLoop(Tail(paymentIds), Tail(generated), pays, success,
                          Append(failed, [paymentId |-> paymentId, reason |-> "Payment validation failed"]))
       ELSE
         BulkMarkPaidLoop(Tail(paymentIds), Tail(generated),
                          [pays EXCEPT ![p] = MarkPaid(@, Head(generated))],
                          Append(success, [paymentId |-> paymentId,
                                           receiptNumber |-> MarkPaid(pays[p], Head(generated)).receiptNumber]),
                          failed)

\* POST /bulk-mark-paid behind auth and allowRoles("SuperAdmin", "Admin", "Finance")
bulkMarkPaid(tok, paymentIds, generated) ==
  /\ Authenticated(tok)
  /\ LET body == [paymentIds |-> paymentIds]
         done == BulkMarkPaidLoop(paymentIds, generated, payments, <<>>, <<>>)
     IN IF ~allowRoles(FinanceRoles, tok) THEN
          /\ resp' = RespArg("bulkMarkPaid", 403, tok.id, 0, LedgerArg(tok, body), "Access denied")
          /\ UNCHANGED payments
        ELSE IF Len(paymentIds) = 0 THEN
          /\ resp' = RespArg("bulkMarkPaid", 400, tok.id, 0, LedgerArg(tok, body),
                             "Please select at least one payment")
          /\ UNCHANGED payments
        ELSE
          /\ payments' = done.payments
          /\ resp' = RespArg("bulkMarkPaid", 200, tok.id, 0, LedgerArg(tok, body),
                             [success |-> done.success, failed |-> done.failed])
  /\ UNCHANGED <<users, tokens, notifications, miqaats, regs, charts, pending, rev, today, sweeps, joins, txns, attendances, marks>>

\* the updates PUT /payments/:id sends to findByIdAndUpdate: with status Paid
\* a missing paidDate and a missing receiptNumber are filled in from the clock
PaidUpdates(updates, generated) ==
  IF updates.status = "Paid"
  THEN [status |-> "Paid", paidDate |-> today,
        receiptNumber |-> IF updates.receiptNumber = "" THEN generated ELSE updates.receiptNumber]
  ELSE [status |-> updates.status, paidDate |-> NoDate, receiptNumber |-> updates.receiptNumber]

\* findByIdAndUpdate(id, updates): $set of every field the updates carry
ApplyUpdates(payment, u) ==
  [payment EXCEPT !.status = u.status,
                  !.paidDate = IF u.paidDate = NoDate THEN @ ELSE u.paidDate,
                  !.receiptNumber = IF u.receiptNumber = "" THEN @ ELSE u.receiptNumber]

\* PUT /payments/:id behind auth and allowRoles("SuperAdmin", "Admin", "Finance")
updatePayment(tok, id, updates, generated) ==
  /\ Authenticated(tok)
  /\ LET found == FindPayment(id, payments)
         p == CastObjectId(id)
         arg == LedgerArg(tok, [id |-> id, updates |-> updates])
     IN IF ~allowRoles(FinanceRoles, tok) THEN
          /\ resp' = RespArg("updatePayment", 403, tok.id, 0, arg, "Access denied")
          /\ UNCHANGED payments
        ELSE IF found = "cast" THEN
          /\ resp' = RespArg("updatePayment", 500, tok.id, 0, arg, "Server error")
          /\ UNCHANGED payments
        ELSE IF found = "none" THEN
          /\ resp' = RespArg("updatePayment", 404, tok.id, 0, arg, "Payment not found")
          /\ UNCHANGED payments
        ELSE
          /\ payments' = [payments EXCEPT ![p] = ApplyUpdates(@, PaidUpdates(updates, generated))]
          /\ resp' = RespArg("updatePayment", 200, tok.id, p, arg, "Payment updated successfully")
  /\ UNCHANGED <<users, tokens, notifications, miqaats, regs, charts, pending, rev, today, sweeps, joins, txns, attendances, marks>>

\* -------------------------------------------------------------- the sweep
\* a generate-annual-dues request that has not started
IdleSweep == [pc |-> "idle", tok |-> <<>>, todo |-> <<>>]

IsLeapYear(y) == y % 4 = 0 /\ (y % 100 # 0 \/ y % 400 = 0)

DaysInMonth(y, m) ==
  IF m = 1 THEN (IF IsLeapYear(y) THEN 29 ELSE 28)
  ELSE IF m \in {3, 5, 8, 10} THEN 30
  ELSE 31

\* a Date built from fields that may overflow the month, as setFullYear and
\* setDate leave it: 29 February of a common year is 1 March
Normalize(date) ==
  IF date.d > DaysInMonth(date.y, date.m)
  THEN IF date.m = 11 THEN Date(date.y + 1, 0, date.d - DaysInMonth(date.y, date.m))
       ELSE Date(date.y, date.m + 1, date.d - DaysInMonth(date.y, date.m))
  ELSE date

\* a > b on calendar days
After(a, b) ==
  \/ a.y > b.y
  \/ a.y = b.y /\ a.m > b.m
  \/ a.y = b.y /\ a.m = b.m /\ a.d > b.d

\* oneYearAgo.setFullYear(oneYearAgo.getFullYear() - 1)
OneYearAgo(now) == Normalize(Date(now.y - 1, now.m, now.d))

\* dueDate.setFullYear(currentDate.getFullYear()); dueDate.setDate(getDate() + 30):
\* thirty days are at most one month's overflow past any month but February
SweepDueDate(registrationDate, now) ==
  LET inYear == Normalize(Date(now.y, registrationDate.m, registrationDate.d))
  IN Normalize(Normalize(Date(inYear.y, inYear.m, inYear.d + 30)))

\* the payment the sweep builds for a member
AnnualPayment(n, tok) ==
  [memberId |-> n,
   paymentType |-> "Annual Subscription",
   status |-> IF After(today, SweepDueDate(users[n].createdAt, today)) THEN "Overdue" ELSE "Pending",
   subscriptionYear |-> calculateSubscriptionYear(users[n].createdAt, today),
   paidDate |-> NoDate,
   receiptNumber |-> "",
   recordedBy |-> tok.id,
   autoGenerated |-> TRUE]

\* Payment.findOne({memberId, paymentType: "Annual Subscription", subscriptionYear})
ExistingPayment(n) ==
  \E p \in 1..Len(payments) :
    /\ payments[p].memberId = n
    /\ payments[p].paymentType = "Annual Subscription"
    /\ payments[p].subscriptionYear = calculateSubscriptionYear(users[n].createdAt, today)

\* User.find({role: "Member", status: "active"})
SweepMembers ==
  SortedSeq({n \in ObjectIds : users[n].status = "active" /\ users[n].role = "Member"})

SweepResp(sw) == RespArg("generateAnnualDues", 200, sw.tok.id, 0, LedgerArg(sw.tok, <<>>), "completed")

\* a request that has gone through its members answers and ends
SweepNext(r, todo) ==
  IF todo = <<>> THEN
    /\ sweeps' = [sweeps EXCEPT ![r] = IdleSweep]
    /\ resp' = SweepResp(sweeps[r])
  ELSE
    /\ sweeps' = [sweeps EXCEPT ![r] = [@ EXCEPT !.pc = "find", !.todo = todo]]
    /\ UNCHANGED resp

\* POST /generate-annual-dues behind auth and allowRoles(...), up to the
\* query for the members
sweepStart(r, tok) ==
  /\ Authenticated(tok)
  /\ sweeps[r].pc = "idle"
  /\ IF ~allowRoles(FinanceRoles, tok) THEN
       /\ resp' = RespArg("generateAnnualDues", 403, tok.id, 0, LedgerArg(tok, <<>>), "Access denied")
       /\ UNCHANGED sweeps
     ELSE IF SweepMembers = <<>> THEN
       /\ resp' = RespArg("generateAnnualDues", 200, tok.id, 0, LedgerArg(tok, <<>>), "completed")
       /\ UNCHANGED sweeps
     ELSE
       /\ sweeps' = [sweeps EXCEPT ![r] = [pc |-> "find", tok |-> tok, todo |-> SweepMembers]]
       /\ UNCHANGED resp
  /\ UNCHANGED <<users, tokens, notifications, miqaats, regs, charts, pending, rev, payments, today, joins, txns, attendances, marks>>

\* one turn of the loop up to the save: the one-year test and the query for
\* an existing payment
sweepFind(r) ==
  /\ sweeps[r].pc = "find"
  /\ LET member == Head(sweeps[r].todo)
     IN IF After(users[member].createdAt, OneYearAgo(today)) \/ ExistingPayment(member)
        THEN SweepNext(r, Tail(sweeps[r].todo))
        ELSE /\ sweeps' = [sweeps EXCEPT ![r].pc = "save"]
             /\ UNCHANGED resp
  /\ UNCHANGED <<users, tokens, notifications, miqaats, regs, charts, pending, rev, payments, today, joins, txns, attendances, marks>>

\* payment.save() and the end of the turn
sweepSave(r) ==
  /\ sweeps[r].pc = "save"
  /\ LET payment == AnnualPayment(Head(sweeps[r].todo), sweeps[r].tok)
     IN payments' = IF SavesPayment(payment) THEN Append(payments, payment) ELSE payments
  /\ SweepNext(r, Tail(sweeps[r].todo))
  /\ UNCHANGED <<users, tokens, notifications, miqaats, regs, charts, pending, rev, today, joins, txns, attendances, marks>>

\* ------------------------------------------------------------------- Init
Revisions == {1, 2, 3}

\* the users after the seed script has written k of its super administrators;
\* the other ids are not handed out yet
SeededUsers(k) ==
  [n \in ObjectIds |->
     IF n <= k THEN [status |-> "active", role |-> "SuperAdmin", createdAt |-> SeedDay,
                     itsNumber |-> n, email |-> n]
     ELSE [status |-> "unborn", role |-> "Member", createdAt |-> SeedDay,
           itsNumber |-> 0, email |-> 0]]

\* everything but the users and the calendar
InitRest ==
  /\ tokens = {}
  /\ notifications = <<>>
  /\ miqaats = <<>>
  /\ regs = [r \in 1..MaxReqs |-> IdleReg]
  /\ charts = <<>>
  /\ pending = NoPending
  /\ rev \in Revisions
  /\ payments = <<>>
  /\ sweeps = [r \in 1..MaxSweeps |-> IdleSweep]
  /\ joins = [r \in 1..MaxJoins |-> IdleJoin]
  /\ txns = [t \in 1..MaxTxns |-> NoTxn]
  /\ attendances = <<>>
  /\ marks = [r \in 1..MaxMarks |-> IdleMark]
  /\ resp = Resp("none", 0, NullId, NullId, "")

\* the store with the first super administrator of the seed script written
InitStore ==
  /\ users = SeededUsers(1)
  /\ InitRest

\* the store with both super administrators of the seed script written
InitBoth ==
  /\ users = SeededUsers(2)
  /\ InitRest
  /\ rev = 1
  /\ today = SeedDay

Init == InitStore /\ today = SeedDay

InitOne == Init /\ rev = 1

\* ------------------------------------------------- user and token actions
Login == \E n \in ObjectIds : loginUser(n, TRUE)

CreateMember == \E tok \in tokens : createMember(tok, "Member", "active", TRUE)

UpdateMember == \E tok \in tokens, n \in ObjectIds, s \in {"active", "inactive"} :
                  updateMember(tok, n, s)

DeleteMember == \E tok \in tokens, n \in ObjectIds : deleteMember(tok, n)

\* --------------------------------------------------- fan-out specification
NotifyTest ==
  /\ Len(notifications) < MaxNotifs
  /\ \E type \in {"general", "alert"}, createdBy \in {NullId, 1}, f \in BOOLEAN :
       notifyTest(type, createdBy, f)

CreateMiqaat ==
  /\ Len(miqaats) < MaxMiqaats
  /\ Len(notifications) < MaxNotifs
  /\ \E tok \in tokens, validBody \in BOOLEAN, cf \in BOOLEAN, f \in BOOLEAN :
       createMiqaat(tok, validBody, cf, f)

NextFanout ==
  \/ Login
  \/ CreateMember
  \/ UpdateMember
  \/ NotifyTest
  \/ CreateMiqaat

SpecFanout == InitOne /\ [][NextFanout]_vars

\* ------------------------------------------- notification specification
MarkAsRead == \E tok \in tokens, id \in NotifIds : markAsRead(tok, id)

MarkAllAsRead == \E tok \in tokens : markAllAsRead(tok)

ClearNotification == \E tok \in tokens, id \in NotifIds : clearNotification(tok, id)

ClearAllNotifications == \E tok \in tokens : clearAllNotifications(tok)

Broadcast ==
  /\ Len(notifications) < MaxNotifs
  /\ notifyTest("general", 1, FALSE)

NextNotify ==
  \/ Login
  \/ CreateMember
  \/ Broadcast
  \/ MarkAsRead
  \/ MarkAllAsRead
  \/ ClearNotification
  \/ ClearAllNotifications

SpecNotify == InitOne /\ [][NextNotify]_vars

\* ------------------------------------------------- inbox specification
InboxIds == 1..MaxInbox

InboxBroadcast ==
  /\ Len(notifications) < MaxInbox
  /\ notifyTest("general", 1, FALSE)

InboxMarkAsRead == \E tok \in tokens, id \in InboxIds : markAsRead(tok, id)

InboxClearNotification == \E tok \in tokens, id \in InboxIds : clearNotification(tok, id)

GetNotifications == \E tok \in tokens : getNotifications(tok)

NextInbox ==
  \/ Login
  \/ InboxBroadcast
  \/ InboxMarkAsRead
  \/ InboxClearNotification
  \/ ClearAllNotifications
  \/ GetNotifications

SpecInbox == InitBoth /\ [][NextInbox]_vars

\* ------------------------------------------------ attendance specifications
MiqaatIds == 1..MaxMiqaats

\* room left in the event's attendance list for the entries still to be saved
HasRoom(m) ==
  m <= Len(miqaats) =>
    Len(miqaats[m].attendance)
      + Cardinality({r \in 1..MaxReqs : regs[r].pc = "save" /\ regs[r].miqaat = m}) < MaxAttend

RegFind == \E r \in 1..MaxReqs, tok \in tokens, m \in MiqaatIds,
              memberId \in HexStrings \cup {NullStr} :
             HasRoom(m) /\ regFind(r, tok, m, memberId)

RegSave == \E r \in 1..MaxReqs : regSave(r)

NextMiqaat ==
  \/ Login
  \/ CreateMiqaat
  \/ RegFind
  \/ RegSave

SpecMiqaat == InitOne /\ [][NextMiqaat]_vars

RegisterMiqaatAttendance ==
  \E tok \in tokens, m \in MiqaatIds,
     memberId \in HexStrings \cup UpperStrings \cup TextStrings \cup {NullStr} :
    HasRoom(m) /\ registerMiqaatAttendance(tok, m, memberId)

NextMiqaatSeq ==
  \/ Login
  \/ CreateMember
  \/ CreateMiqaat
  \/ RegisterMiqaatAttendance

SpecMiqaatSeq == InitOne /\ [][NextMiqaatSeq]_vars

\* ------------------------------------------------ duty chart specification
RefFields == {"captain", "viceCaptain", "inchargeOfficer", "subInchargeOfficer", "member"}

FirstHex == <<"hex", 1>>

FirstUpper == <<"HEX", 1>>

CreateBodies ==
  {Body(TRUE, j, f, x) : j \in {FirstHex, FirstUpper} \cup TextStrings, f \in RefFields, x \in HexStrings}
    \cup {Body(TRUE, NullStr, "none", NullStr), Body(FALSE, FirstHex, "none", NullStr)}

UpdateBodies ==
  {Body(TRUE, j, f, x) : j \in {NullStr, <<"hex", NumUsers>>}, f \in {"captain", "member"},
                         x \in HexStrings \cup TextStrings}

ChartIds == 1..MaxCharts

CreateDutyChartBegin ==
  /\ Len(charts) < MaxCharts
  /\ \E tok \in tokens, body \in CreateBodies : createDutyChartBegin(tok, body)

CreateDutyChartCommit == createDutyChartCommit

UpdateDutyChartBegin ==
  \E tok \in tokens, id \in ChartIds, body \in UpdateBodies : updateDutyChartBegin(tok, id, body)

UpdateDutyChartCommit == updateDutyChartCommit

GetDutyChartById == \E tok \in tokens, id \in ChartIds : getDutyChartById(tok, id)

NextDuty ==
  \/ Login
  \/ CreateMember
  \/ DeleteMember
  \/ CreateDutyChartBegin
  \/ CreateDutyChartCommit
  \/ UpdateDutyChartBegin
  \/ UpdateDutyChartCommit
  \/ GetDutyChartById

SpecDuty == Init /\ [][NextDuty]_vars

\* -------------------------------------------- chart replacement specification
\* update bodies with an assignments array of one entry, with an empty
\* assignments array and with no assignments field
ReplaceBodies ==
  {Body(TRUE, NullStr, "member", x) : x \in HexStrings}
    \cup {[Body(TRUE, NullStr, "none", NullStr) EXCEPT !.hasAssignments = TRUE],
          Body(TRUE, NullStr, "none", NullStr)}

CreateAssignedChartBegin ==
  /\ Len(charts) < MaxCharts
  /\ \E tok \in tokens, x \in HexStrings :
       createDutyChartBegin(tok, Body(TRUE, FirstHex, "member", x))

ReplaceDutyChartBegin ==
  \E tok \in tokens, id \in ChartIds, body \in ReplaceBodies :
    updateDutyChartBegin(tok, id, body)

NextDutyReplace ==
  \/ Login
  \/ CreateMember
  \/ CreateAssignedChartBegin
  \/ CreateDutyChartCommit
  \/ ReplaceDutyChartBegin
  \/ UpdateDutyChartCommit

SpecDutyReplace == Init /\ [][NextDutyReplace]_vars

\* ------------------------------------------------ chart listing specification
ListBodies ==
  {[Body(TRUE, FirstHex, "member", x) EXCEPT !.eventName = n, !.dutyDate = t] :
     n \in EventNames, t \in DutyDates, x \in HexStrings}

CreateListedChartBegin ==
  /\ Len(charts) < MaxCharts
  /\ \E tok \in tokens, body \in ListBodies : createDutyChartBegin(tok, body)

GetAllDutyChartsHandler == \E tok \in tokens, q \in Queries : getAllDutyChartsHandler(tok, q)

GetAllDutyCharts == \E tok \in tokens, q \in Queries : getAllDutyCharts(tok, q)

NextDutyList ==
  \/ Login
  \/ CreateMember
  \/ CreateListedChartBegin
  \/ CreateDutyChartCommit
  \/ GetAllDutyChartsHandler
  \/ GetAllDutyCharts

SpecDutyList == Init /\ [][NextDutyList]_vars

\* ------------------------------------------------------ gate specification
Ages == {0, TokenLifetime - 1, TokenLifetime}

\* tokens the server issued, presented at any age, and forged ones
Creds ==
  {NoCred, BasicCred}
    \cup {Bearer(p, TRUE, a) : p \in tokens, a \in Ages}
    \cup {Bearer([id |-> 1, role |-> "SuperAdmin"], FALSE, 0)}

DeleteMemberRequest == \E cred \in Creds, n \in ObjectIds : deleteMemberRequest(cred, n)

UpdateMemberRole ==
  \E tok \in tokens, n \in ObjectIds : updateMemberRole(tok, n, "Member")

NextGate ==
  \/ Login
  \/ CreateMember
  \/ UpdateMember
  \/ UpdateMemberRole
  \/ DeleteMemberRequest

SpecGate == InitOne /\ [][NextGate]_vars

\* ---------------------------------------------------- ledger specification
MaxIds == 2

MemberIdChoices == {<<"hex", 1>>, <<"hex", NumUsers>>} \cup TextStrings

MemberIdLists ==
  {<<>>} \cup UNION {[1..k -> MemberIdChoices] : k \in 1..MaxIds}

Amounts == {0, 3000}

BulkDues ==
  \E tok \in tokens, memberIds \in MemberIdLists, amount \in Amounts :
    /\ Len(payments) + Len(memberIds) <= MaxPayments
    /\ bulkDues(tok, memberIds, amount)

Receipts == {"RCP1"}

PaymentIdChoices == {<<"hex", 1>>, <<"hex", MaxPayments>>, <<"hex", MaxPayments + 1>>}

PaymentIdLists ==
  {<<>>} \cup UNION {[1..k -> PaymentIdChoices] : k \in 1..MaxIds}

BulkMarkPaid ==
  \E tok \in tokens, paymentIds \in PaymentIdLists :
    \E generated \in [1..Len(paymentIds) -> Receipts] : bulkMarkPaid(tok, paymentIds, generated)

NextLedger ==
  \/ Login
  \/ CreateMember
  \/ BulkDues
  \/ BulkMarkPaid

SpecLedger == InitOne /\ [][NextLedger]_vars

\* ----------------------------------------------------- sweep specification
\* the days the clock passes through: the seed day, the day before its first
\* anniversary, the anniversary, and a day in the cycle after
CalendarDays == <<SeedDay, Date(2025, 0, 14), Date(2025, 0, 15), Date(2026, 1, 20)>>

\* the clock moves on to the next day of the calendar
Tick ==
  /\ \E k \in 1..(Len(CalendarDays) - 1) :
       /\ today = CalendarDays[k]
       /\ today' = CalendarDays[k + 1]
  /\ UNCHANGED <<users, tokens, notifications, miqaats, regs, charts, pending, rev,
                 payments, sweeps, joins, txns, attendances, marks, resp>>

SweepStart == \E r \in 1..MaxSweeps, tok \in tokens : sweepStart(r, tok)

SweepFind == \E r \in 1..MaxSweeps : sweepFind(r)

SweepSave ==
  /\ Len(payments) < MaxPayments
  /\ \E r \in 1..MaxSweeps : sweepSave(r)

NextSweep ==
  \/ Login
  \/ CreateMember
  \/ Tick
  \/ SweepStart
  \/ SweepFind
  \/ SweepSave

SpecSweep == InitOne /\ [][NextSweep]_vars

\* ------------------------------------------- subscription year specification
TestYears == 2023..2025

\* month and day pairs around the turn of the year and the end of February
TestMonthDays == {<<0, 1>>, <<0, 14>>, <<0, 15>>, <<1, 28>>, <<1, 29>>, <<2, 1>>, <<11, 31>>}

TestDays ==
  {Date(y, md[1], md[2]) : y \in TestYears, md \in TestMonthDays}
    \ {Date(y, 1, 29) : y \in {x \in TestYears : ~IsLeapYear(x)}}

\* the helper applied to a registration date on the current day
subscriptionYearOf(registrationDate) ==
  /\ resp' = RespArg("calculateSubscriptionYear", 200, NullId, 0, registrationDate,
                     calculateSubscriptionYear(registrationDate, today))
  /\ UNCHANGED <<users, tokens, notifications, miqaats, regs, charts, pending, rev,
                 payments, today, sweeps, joins, txns, attendances, marks>>

SubscriptionYearOf == \E registrationDate \in TestDays : subscriptionYearOf(registrationDate)

InitAnyDay == InitStore /\ rev = 1 /\ today \in TestDays

NextSubscription == SubscriptionYearOf

SpecSubscription == InitAnyDay /\ [][NextSubscription]_vars

\* ------------------------------------------- member creation specification
\* request bodies: a complete one for every key, one that repeats only the
\* email of the seeded user, and ones with a field left out
JoinBodies ==
  {JoinBody(k, k, TRUE) : k \in Keys}
    \cup {JoinBody(MaxKeys, 1, TRUE), JoinBody(NoKey, 1, TRUE),
          JoinBody(MaxKeys, NoKey, TRUE), JoinBody(1, 1, FALSE)}

CreateMemberFind ==
  \E r \in 1..MaxJoins, tok \in tokens, body \in JoinBodies : createMemberFind(r, tok, body)

RegisterUserFind == \E r \in 1..MaxJoins, body \in JoinBodies : registerUserFind(r, body)

JoinSave == \E r \in 1..MaxJoins, mailFails \in BOOLEAN : joinSave(r, mailFails)

NextJoin ==
  \/ Login
  \/ CreateMemberFind
  \/ RegisterUserFind
  \/ JoinSave

SpecJoin == InitOne /\ [][NextJoin]_vars

\* ---------------------------------------------- transaction specification
\* create bodies: a complete one, one whose jamiatIncharge is free text, one
\* that names a user not created yet, one without the required fields
TxnCreateBodies ==
  {Body(TRUE, FirstHex, "captain", FirstHex),
   Body(TRUE, <<"txt", 0>>, "member", FirstHex),
   Body(TRUE, FirstHex, "member", <<"hex", NumUsers>>),
   Body(FALSE, FirstHex, "none", NullStr)}

TxnUpdateBodies ==
  {Body(TRUE, NullStr, "member", FirstHex),
   Body(TRUE, NullStr, "captain", FirstUpper),
   Body(TRUE, NullStr, "member", <<"txt", 0>>)}

AddBody(fieldsOk, x) == [fieldsOk |-> fieldsOk, assignment |-> [NoAssignment EXCEPT !.members = <<x>>]]

TxnAddBodies ==
  {AddBody(TRUE, FirstHex), AddBody(TRUE, <<"hex", NumUsers>>), AddBody(TRUE, <<"txt", 0>>),
   AddBody(FALSE, FirstHex)}

TxnCreate ==
  /\ Len(charts) + Cardinality({t \in 1..MaxTxns : txns[t].pc = "save" /\ txns[t].op = "createDutyChart"})
       < MaxCharts
  /\ \E t \in 1..MaxTxns, tok \in tokens, body \in TxnCreateBodies :
       txnBegin(t, "createDutyChart", tok, 0, body)

TxnUpdate ==
  \E t \in 1..MaxTxns, tok \in tokens, id \in ChartIds, body \in TxnUpdateBodies :
    txnBegin(t, "updateDutyChart", tok, id, body)

TxnAdd ==
  \E t \in 1..MaxTxns, tok \in tokens, id \in ChartIds, body \in TxnAddBodies :
    /\ id <= Len(charts) => Len(charts[id].assignments) < MaxAssignments
    /\ txnBegin(t, "addAssignment", tok, id, body)

TxnSave == \E t \in 1..MaxTxns : txnSave(t)

TxnRead == \E t \in 1..MaxTxns, readFails \in BOOLEAN, handled \in BOOLEAN : txnRead(t, readFails, handled)

NextTxn ==
  \/ Login
  \/ TxnCreate
  \/ TxnUpdate
  \/ TxnAdd
  \/ TxnSave
  \/ TxnRead

SpecTxn == Init /\ [][NextTxn]_vars

\* ------------------------------------------------ rejection specification
\* the five writing handlers that answer 400, each with bodies that pass and
\* bodies that fail its checks
RejectCreateMiqaat ==
  /\ Len(miqaats) < MaxMiqaats
  /\ \E tok \in tokens, validBody \in BOOLEAN : createMiqaat(tok, validBody, FALSE, TRUE)

RejectChartBodies ==
  {Body(TRUE, FirstHex, "captain", FirstHex),
   Body(TRUE, FirstHex, "member", <<"hex", NumUsers>>),
   Body(FALSE, FirstHex, "none", NullStr)}

RejectCreateChart ==
  /\ Len(charts) + Cardinality({t \in 1..MaxTxns : txns[t].pc = "save"}) < MaxCharts
  /\ \E tok \in tokens, body \in RejectChartBodies : txnBegin(1, "createDutyChart", tok, 0, body)

RejectAttendance ==
  \E tok \in tokens, m \in MiqaatIds, memberId \in {FirstHex, NullStr} :
    HasRoom(m) /\ registerMiqaatAttendance(tok, m, memberId)

RejectBulkDues ==
  \E tok \in tokens, memberIds \in {<<>>, <<FirstHex>>}, amount \in Amounts :
    /\ Len(payments) + Len(memberIds) <= MaxPayments
    /\ bulkDues(tok, memberIds, amount)

RejectMemberBodies ==
  {JoinBody(MaxKeys, MaxKeys, TRUE), JoinBody(MaxKeys, 1, TRUE), JoinBody(NoKey, 1, TRUE),
   JoinBody(1, 1, FALSE)}

RejectMemberFind == \E tok \in tokens, body \in RejectMemberBodies : createMemberFind(1, tok, body)

RejectMemberSave == joinSave(1, FALSE)

NextReject ==
  \/ Login
  \/ RejectCreateMiqaat
  \/ RejectCreateChart
  \/ TxnSave
  \/ TxnRead
  \/ RejectAttendance
  \/ RejectBulkDues
  \/ RejectMemberFind
  \/ RejectMemberSave

SpecReject == Init /\ [][NextReject]_vars

\* --------------------------------------------------- receipt specification
ReceiptNumbers == {"RCP1", "RCP2"}

ReceiptDues ==
  \E tok \in tokens :
    /\ Len(payments) < MaxPayments
    /\ bulkDues(tok, <<FirstHex>>, 3000)

ReceiptMarkPaid ==
  \E tok \in tokens, paymentId \in PaymentIdChoices, generated \in ReceiptNumbers :
    bulkMarkPaid(tok, <<paymentId>>, <<generated>>)

PaymentUpdates == {[status |-> s, receiptNumber |-> ""] : s \in {"Paid", "Pending"}}

UpdatePayment ==
  \E tok \in tokens, id \in PaymentIdChoices \cup TextStrings, updates \in PaymentUpdates,
     generated \in ReceiptNumbers :
    updatePayment(tok, id, updates, generated)

NextReceipt ==
  \/ Login
  \/ CreateMember
  \/ ReceiptDues
  \/ ReceiptMarkPaid
  \/ UpdatePayment

SpecReceipt == InitOne /\ [][NextReceipt]_vars

\* ----------------------------------------------------- login specification
\* the build runs one of the two definitions of loginUser
LoginEarlier == \E n \in ObjectIds, pwOk \in BOOLEAN : loginUser(n, pwOk)

LoginLater == \E n \in ObjectIds, pwOk \in BOOLEAN : loginUserLater(n, pwOk)

CreateAnyMember ==
  \E tok \in tokens, role \in {"Member", "Admin"}, status \in {"active", "inactive"} :
    createMember(tok, role, status, TRUE)

NextLogin ==
  \/ LoginEarlier
  \/ LoginLater
  \/ CreateAnyMember
  \/ UpdateMember
  \/ DeleteMember

SpecLogin == InitOne /\ [][NextLogin]_vars

\* ----------------------------------------------- QR attendance specification
SessionCodes == 0..(MaxSessions + 1)

MarkFind ==
  \E r \in 1..MaxMarks, tok \in tokens, sessionCode \in SessionCodes, sessionOpen \in BOOLEAN :
    markFind(r, tok, sessionCode, sessionOpen)

MarkSave == \E r \in 1..MaxMarks : markSave(r)

MarkBySession ==
  \E tok \in tokens, sessionId \in SessionCodes \ {NoSession}, sessionOpen \in BOOLEAN :
    markBySession(tok, sessionId, sessionOpen)

NextMark ==
  \/ Login
  \/ CreateMember
  \/ MarkFind
  \/ MarkSave
  \/ MarkBySession

SpecMark == InitOne /\ [][NextMark]_vars

\* ================================================================ claims

\* a step that ran the fan-out: the dev endpoint, or createMiqaat past its
\* checks and its primary write
FanoutStep ==
  \/ resp'.op = "notifyTest"
  \/ resp'.op = "createMiqaat" /\ resp'.status \in {201, 500} /\ resp'.tgt # NullId

FanoutReturned == resp'.info \in {"created", "none"}

LastNotification == notifications'[Len(notifications')]

\* C1: for every notification, in every state reached by mark-as-read,
\* mark-all-as-read, clear and clear-all calls of authenticated users, readBy
\* is a subset of forUsers.
C1_ReadBySubsetOfForUsers ==
  \A i \in 1..Len(notifications) :
    Range(notifications[i].readBy) \subseteq Range(notifications[i].forUsers)

\* C4: markAsRead is idempotent: a markAsRead(n) by u that directly follows a
\* markAsRead(n) by u leaves every notification as it was, and no readBy list
\* ever holds the same user twice.
C4_MarkAsReadIdempotent ==
  /\ [](\A i \in 1..Len(notifications) : \A u \in ObjectIds :
          Count(notifications[i].readBy, u) <= 1)
  /\ [][(/\ resp.op = "markAsRead"
         /\ resp'.op = "markAsRead"
         /\ resp'.who = resp.who
         /\ resp'.tgt = resp.tgt) => notifications' = notifications]_vars

C4_Witness ==
  /\ resp.op = "markAsRead"
  /\ resp.tgt <= Len(notifications)
  /\ resp.who \in Range(notifications[resp.tgt].readBy)
  /\ Len(notifications[resp.tgt].readBy) = 2

C6_FanoutNobodyActive ==
  [][(FanoutStep /\ ActiveUsers = {} /\ resp'.info # "unavailable") =>
       /\ notifications' = notifications
       /\ resp'.info = "none"
       /\ resp'.status \in {200, 201}]_vars

C6_Witness ==
  /\ resp.op = "notifyTest"
  /\ resp.info = "none"
  /\ resp.who = NullId
  /\ ActiveUsers = {}

\* C7: when the fan-out called by createMiqaat fails, the event created by
\* the request is persisted and the request is answered 201; events already
\* stored are never removed.
C7_FanoutFailureKeepsEvent ==
  [][/\ Len(miqaats') >= Len(miqaats)
     /\ SubSeq(miqaats', 1, Len(miqaats)) = miqaats
     /\ (resp'.op = "createMiqaat" /\ resp'.info \in {"throws", "unavailable"}) =>
          /\ resp'.status = 201
          /\ miqaats' = Append(miqaats, [createdBy |-> resp'.who, attendance |-> <<>>])
          /\ resp'.tgt = Len(miqaats')
          /\ notifications' = notifications]_vars

C7_Witness ==
  /\ resp.op = "createMiqaat"
  /\ resp.info = "unavailable"
  /\ resp.status = 201
  /\ resp.tgt = Len(miqaats)

EntriesOf(attendance, n) == {i \in 1..Len(attendance) : attendance[i].member = n}

\* C2: in every reachable state, whatever the interleaving of concurrent
\* registerMiqaatAttendance requests, a member appears at most once in an
\* event's attendance list.
C2_AttendanceUnique ==
  \A m \in 1..Len(miqaats) : \A n \in ObjectIds :
    Cardinality(EntriesOf(miqaats[m].attendance, n)) <= 1

\* C3: a registerMiqaatAttendance call for an event and a member answered 200
\* leaves exactly one entry for that member, with status Present; when the
\* member already had an entry the call says so and changes nothing in the
\* event.
C3_SecondRegistrationIsNoOp ==
  [][(/\ resp'.op = "registerAttendance"
      /\ resp'.status = 200
      /\ isValidObjectId(resp'.arg)) =>
       LET m == resp'.tgt
           n == CastObjectId(resp'.arg)
       IN /\ Cardinality(EntriesOf(miqaats'[m].attendance, n)) = 1
          /\ \A i \in EntriesOf(miqaats'[m].attendance, n) :
               miqaats'[m].attendance[i].status = "Present"
          /\ EntriesOf(miqaats[m].attendance, n) # {} =>
               /\ miqaats' = miqaats
               /\ resp'.info = "Already registered for Khidmat."]_vars


\* the identifier-shaped references of a request body or a stored chart that
\* are the id of no existing user
NotFound(c) == {s \in ChartRefs(c) : isValidObjectId(s) /\ ~Exists(CastObjectId(s))}

\* C8: createDutyChart called by an Admin or SuperAdmin with every required
\* field and a reference that is identifier-shaped and the id of no existing
\* user answers 400 with a list equal to exactly those references and
\* persists no chart; a request that passes the check names no such reference.
C8_CreateRejectsUnknownRefs ==
  [][/\ (/\ resp'.op = "createDutyChart"
         /\ pending.kind = "none"
         /\ resp'.arg.role \in {"Admin", "SuperAdmin"}
         /\ resp'.arg.body.fieldsOk
         /\ resp'.arg.body.jamiatIncharge # NullStr
         /\ NotFound(resp'.arg.body) # {})
        => (resp'.status = 400 /\ resp'.info = NotFound(resp'.arg.body) /\ charts' = charts)
     /\ (pending.kind = "none" /\ pending'.kind = "create")
        => NotFound(pending'.body) = {}]_vars

\* C9: whenever createDutyChart or updateDutyChart commits a chart, every
\* identifier-shaped reference in the written chart is the id of a user that
\* exists at the time of the commit.
C9_CommittedRefsExist ==
  [][\A c \in 1..Len(charts') :
       (c > Len(charts) \/ charts'[c] # charts[c]) => NotFound(charts'[c]) = {}]_vars

\* membership as the claim states it: the caller's id is in some assignment's
\* member list
InSomeMemberList(chart, who) ==
  \E k \in 1..Len(chart.assignments) :
    \E s \in Range(chart.assignments[k].members) : isValidObjectId(s) /\ CastObjectId(s) = who

\* C10: GET /dutychart/:id as routed, called by a Member for an existing
\* chart, answers 403 when the caller is in no member list of the chart and
\* 200 when the caller is in one.
C10_MemberReadsAssignedChart ==
  [][(/\ resp'.op = "getDutyChartById"
      /\ resp'.arg.role = "Member"
      /\ resp'.tgt <= Len(charts)
      /\ charts' = charts)
     => resp'.status = IF InSomeMemberList(charts[resp'.tgt], resp'.who) THEN 200 ELSE 403]_vars


\* C11: every duty chart getAllDutyCharts returns to a caller whose role is
\* Member has the caller's id in the member list of one of its assignments,
\* for every combination of the search and date-range filters.
C11_MemberListsOnlyAssigned ==
  (resp.op \in {"getAllDutyCharts", "getAllDutyChartsHandler"} /\ resp.arg.role = "Member")
    => \A c \in resp.info : c <= Len(charts) /\ InSomeMemberList(charts[c], resp.who)


\* every credential a request can carry
AllCreds ==
  {NoCred, BasicCred}
    \cup {Bearer([id |-> n, role |-> r], sg, a) :
            n \in ObjectIds, r \in Roles, sg \in BOOLEAN, a \in Ages}

Verifies(cred) == cred.header = "bearer" /\ cred.signed /\ cred.age < TokenLifetime

\* the handler behind the gate answered
HandlerRan == resp'.status \in {200, 404} \/ users' # users

\* what every answer of the gated handler tells about the credential of its
\* request: a 401 carries it, any other answer names the token's subject
Presented(cred) ==
  IF resp'.status = 401 THEN resp'.arg = cred
  ELSE cred.header = "bearer" /\ cred.payload.id = resp'.who

\* C12: a handler behind auth and allowRoles(R) runs only when the request
\* carries a Bearer token that verifies and whose role is in R; a missing, an
\* invalid and an expired token all yield 401, a valid token whose role is not
\* in R yields 403, and in each case the handler does not run.
C12_GateOutcomes ==
  [][\A cred \in AllCreds, n \in ObjectIds \cap {resp'.tgt} :
       (Presented(cred) /\ deleteMemberRequest(cred, n)) =>
         /\ ~Verifies(cred) => (resp'.status = 401 /\ ~HandlerRan)
         /\ (Verifies(cred) /\ cred.payload.role \notin {"SuperAdmin", "Admin"})
              => (resp'.status = 403 /\ ~HandlerRan)
         /\ HandlerRan => (Verifies(cred) /\ cred.payload.role \in {"SuperAdmin", "Admin"})]_vars

\* an expired token the server once issued has been answered 401
C12_Witness ==
  /\ resp.op = "deleteMember"
  /\ resp.status = 401
  /\ resp.arg.header = "bearer"
  /\ resp.arg.signed
  /\ resp.arg.age >= TokenLifetime
  /\ resp.arg.payload \in tokens


\* a token the server issued, presented within its lifetime
Unexpired(cred) == Verifies(cred) /\ cred.payload \in tokens

\* C13: once a token has been issued at login, every later request that
\* presents it within its lifetime passes auth with the subject id and role
\* fixed at issue time, whatever has happened to the user record since
\* (status set to inactive, role changed, record deleted); no operation
\* withdraws an issued token.
C13_TokenOutlivesUserRecord ==
  [][/\ tokens \subseteq tokens'
     /\ \A cred \in AllCreds, n \in ObjectIds \cap {resp'.tgt} :
          (Unexpired(cred) /\ deleteMemberRequest(cred, n)) =>
            /\ resp'.status # 401
            /\ resp'.who = cred.payload.id
            /\ resp'.status = 403 <=> cred.payload.role \notin {"SuperAdmin", "Admin"}]_vars

\* a request of a token holder whose record is no longer an active user of
\* the role in the token has passed the gate and run the handler
C13_Witness ==
  /\ resp.op = "deleteMember"
  /\ resp.status \in {200, 404}
  /\ resp.who \in ObjectIds
  /\ \/ users[resp.who].status \in {"inactive", "deleted"}
     \/ users[resp.who].role \notin {"SuperAdmin", "Admin"}


\* the entry names an existing user
Resolves(memberId) == isValidObjectId(memberId) /\ Exists(CastObjectId(memberId))

\* the payments a step appended to the ledger
NewPayments == SubSeq(payments', Len(payments) + 1, Len(payments'))

\* C14: for a non-empty memberIds list and a positive amount, bulk-dues
\* creates exactly one Pending payment for each entry that resolves to an
\* existing user and none for the others; every entry that does not resolve
\* is reported in failed with reason "Member not found"; and the success and
\* failed entries together are as many as the list's entries.
C14_BulkDuesPerEntry ==
  [][(/\ resp'.op = "bulkDues"
      /\ resp'.arg.role \in FinanceRoles
      /\ Len(resp'.arg.body.memberIds) > 0
      /\ resp'.arg.body.amount > 0)
     => LET ids == resp'.arg.body.memberIds
            res == resp'.info
        IN /\ resp'.status = 200
           /\ Len(payments') >= Len(payments)
           /\ SubSeq(payments', 1, Len(payments)) = payments
           /\ \A k \in 1..Len(NewPayments) : NewPayments[k].status = "Pending"
           /\ \A n \in ObjectIds :
                Cardinality({k \in 1..Len(NewPayments) : NewPayments[k].memberId = n})
                  = Cardinality({k \in 1..Len(ids) : Resolves(ids[k]) /\ CastObjectId(ids[k]) = n})
           /\ \A k \in 1..Len(ids) :
                ~Resolves(ids[k]) =>
                  \E f \in 1..Len(res.failed) :
                    res.failed[f] = [memberId |-> ids[k], reason |-> "Member not found"]
           /\ Len(res.success) + Len(res.failed) = Len(ids)]_vars


\* the payment the id names, 0 when it names none
PaymentOf(paymentId) ==
  IF isValidObjectId(paymentId) /\ CastObjectId(paymentId) <= Len(payments)
  THEN CastObjectId(paymentId) ELSE 0

\* C15: after bulk-mark-paid on a list of payment ids, every listed payment
\* that exists has status Paid, a paid date and a non-empty receipt number;
\* each id that names no payment is reported in failed and the items after
\* it are still processed; payments not in the list are unchanged.
C15_BulkMarkPaid ==
  [][(/\ resp'.op = "bulkMarkPaid"
      /\ resp'.arg.role \in FinanceRoles
      /\ Len(resp'.arg.body.paymentIds) > 0)
     => LET ids == resp'.arg.body.paymentIds
            res == resp'.info
            listed == {PaymentOf(ids[k]) : k \in 1..Len(ids)} \ {0}
        IN /\ resp'.status = 200
           /\ Len(payments') = Len(payments)
           /\ \A p \in listed :
                /\ payments'[p].status = "Paid"
                /\ payments'[p].paidDate # NoDate
                /\ payments'[p].receiptNumber # ""
           /\ \A k \in 1..Len(ids) :
                PaymentOf(ids[k]) = 0 =>
                  \E f \in 1..Len(res.failed) : res.failed[f].paymentId = ids[k]
           /\ Len(res.success) + Len(res.failed) = Len(ids)
           /\ \A p \in 1..Len(payments) : p \notin listed => payments'[p] = payments[p]]_vars

\* a list whose first id names no payment and whose second names a pending
\* one has been processed, with another payment left out of the list
C15_Witness ==
  /\ resp.op = "bulkMarkPaid"
  /\ resp.status = 200
  /\ Len(resp.arg.body.paymentIds) = 2
  /\ PaymentOf(resp.arg.body.paymentIds[1]) = 0
  /\ PaymentOf(resp.arg.body.paymentIds[2]) # 0
  /\ Len(resp.info.failed) = 1
  /\ Len(resp.info.success) = 1
  /\ \E p \in 1..Len(payments) : payments[p].status = "Pending"


\* the auto-generated payments of a member for a subscription year
AutoPayments(n, label) ==
  {p \in 1..Len(payments) :
     /\ payments[p].autoGenerated
     /\ payments[p].memberId = n
     /\ payments[p].subscriptionYear = label}

\* C16: across any sequence or interleaving of generate-annual-dues sweeps,
\* at most one auto-generated payment exists per member and subscription
\* year.
C16_OneAnnualPaymentPerYear ==
  \A n \in ObjectIds :
    \A p \in 1..Len(payments) :
      Cardinality(AutoPayments(n, payments[p].subscriptionYear)) <= 1


\* reg has an anniversary in year y: its month and day exist in that year
HasAnniversary(reg, y) == reg.d <= DaysInMonth(y, reg.m)

\* the years of the anniversaries of reg, the registration day included,
\* that are on or before t
AnniversaryYears(reg, t) ==
  {y \in reg.y..t.y : HasAnniversary(reg, y) /\ ~After(Date(y, reg.m, reg.d), t)}

MaxOf(S) == CHOOSE x \in S : \A y \in S : y <= x

\* a result of the helper for a registration that is not in the future
Calculated ==
  /\ resp.op = "calculateSubscriptionYear"
  /\ ~After(resp.arg, today)

\* C17, as stated: calculateSubscriptionYear(reg) on day t returns "Y-(Y+1)"
\* where Y is the year of the latest anniversary of reg (same month and day)
\* that is on or before t.
C17_LatestAnniversary ==
  Calculated =>
    LET Y == MaxOf(AnniversaryYears(resp.arg, today))
    IN resp.info = <<Y, Y + 1>>

\* C17, amended: the same for every registration day but 29 February; for a
\* registration on 29 February Y is the year of t from 1 March of every year
\* on (and from 29 February in a leap year), and the year before until then.
C17_LatestAnniversaryAmended ==
  Calculated =>
    LET reg == resp.arg
        Y == IF reg.m = 1 /\ reg.d = 29
             THEN (IF today.m > 1 \/ (today.m = 1 /\ today.d >= 29) THEN today.y ELSE today.y - 1)
             ELSE MaxOf(AnniversaryYears(reg, today))
    IN resp.info = <<Y, Y + 1>>

\* the helper has been applied on the day before an anniversary of the
\* registration, one or more years after it
C17_Witness ==
  /\ Calculated
  /\ today.y > resp.arg.y
  /\ today.m = resp.arg.m
  /\ today.d + 1 = resp.arg.d
  /\ HasAnniversary(resp.arg, today.y)
  /\ resp.info = <<today.y - 1, today.y>>

\* two stored users with the same itsNumber or the same email
SharedKey ==
  \E a, b \in ObjectIds :
    /\ a # b /\ Exists(a) /\ Exists(b)
    /\ (users[a].itsNumber = users[b].itsNumber \/ users[a].email = users[b].email)

\* a stored user has the itsNumber or the email of the body
KeyTaken(body) ==
  \E n \in ObjectIds :
    /\ Exists(n)
    /\ \/ body.itsNumber # NoKey /\ users[n].itsNumber = body.itsNumber
       \/ body.email # NoKey /\ users[n].email = body.email

\* a lookup step of one of the two handlers that answered the request
JoinAnswered ==
  /\ joins' = joins
  /\ resp' # resp
  /\ resp'.op \in {"POST /members", "registerUser"}

Answers(op) == resp' # resp /\ resp'.op = op

OthersKept(u) ==
  /\ Len(notifications') = Len(notifications)
  /\ \A i \in 1..Len(notifications), v \in ObjectIds \ {u} :
       /\ (v \in Range(notifications'[i].forUsers)) = (v \in Range(notifications[i].forUsers))
       /\ (v \in Range(notifications'[i].readBy)) = (v \in Range(notifications[i].readBy))

C21_AssignmentsReplaced ==
  [][(updateDutyChartCommit /\ resp'.status = 200) =>
       LET body == pending.body
           before == charts[pending.idx].assignments
           after == charts'[pending.idx].assignments
       IN IF body.hasAssignments
          THEN after = [k \in 1..Len(body.assignments) |-> StoreAssignment(body.assignments[k])]
          ELSE after = before
    ]_vars

\* C22: an attendance entry appended by registerMiqaatAttendance has the
\* caller, the subject of the presented token, as its member.
C22_AttendanceOfCaller ==
  [][\A m \in 1..Len(miqaats) :
       (resp'.op = "registerAttendance" /\ Len(miqaats'[m].attendance) > Len(miqaats[m].attendance))
         => miqaats'[m].attendance[Len(miqaats'[m].attendance)].member = resp'.who
    ]_vars

\* C23: when the send of the welcome email fails after POST /members has
\* stored the new member, the member is stored all the same and the answer
\* is 201 with the advisory about the email, never an error status.
C23_EmailFailureKeepsMember ==
  [][\A r \in 1..MaxJoins :
       (/\ joins[r].pc = "save"
        /\ joins[r].via = "POST /members"
        /\ ~ValidationFails(joins[r].body)
        /\ ~DuplicateKey(joins[r].body)
        /\ joinSave(r, TRUE))
       => /\ resp'.status = 201
          /\ resp'.info = "Member created but email send failed"
          /\ users'[resp'.tgt].status = "active"
          /\ ~Exists(resp'.tgt)
          /\ users'[resp'.tgt].itsNumber = joins[r].body.itsNumber
    ]_vars

\* a member created with the advisory about the email is stored
C23_Witness ==
  /\ resp.op = "POST /members"
  /\ resp.status = 201
  /\ resp.info = "Member created but email send failed"
  /\ Exists(resp.tgt)
  /\ users[resp.tgt].itsNumber = resp.arg.itsNumber

\* C24: whenever createDutyChart, updateDutyChart or addAssignment answers 4xx
\* or 5xx after it started a transaction, that transaction has been aborted
\* and its session ended.
TxnOps == {"createDutyChart", "updateDutyChart", "addAssignment"}

Answered4xx5xx == resp.op \in TxnOps /\ resp.status >= 400

C24_AbortedBeforeError ==
  (Answered4xx5xx /\ resp.info.state # "none") => resp.info = Session("aborted", TRUE)

\* C26: an updateDutyChart that read its chart before another updateDutyChart
\* committed a write to it still saves: it is not answered with an error and
\* the stored chart is the one it wrote.
Overlapped(t) ==
  /\ txns[t].pc = "save"
  /\ txns[t].op = "updateDutyChart"
  /\ txns[t].overtaken = "updateDutyChart"
  /\ ~SaveFails(Updated(charts[txns[t].idx], txns[t].body))

C26_LastWriteWins ==
  [][\A t \in 1..MaxTxns :
       (Overlapped(t) /\ txns'[t].pc # "save")
         => /\ txns'[t].pc = "read"
            /\ charts'[txns[t].idx]
                 = StoreChart(Updated(charts[txns[t].idx], txns[t].body), charts[txns[t].idx].createdBy) ]_vars

\* C25: a step in which createMiqaat, createDutyChart, registerMiqaatAttendance,
\* bulk-dues or member creation answers 400 leaves users, events, charts,
\* payments and notifications as they were.
RejectingOps == {"createMiqaat", "createDutyChart", "registerAttendance", "bulkDues", "POST /members"}

Persisted == <<users, miqaats, charts, payments, notifications>>

C25_RejectionWritesNothing ==
  [][(resp' # resp /\ resp'.op \in RejectingOps /\ resp'.status = 400) => Persisted' = Persisted]_vars

\* bulk-dues has answered 400 while the ledger and the event store hold records
C25_Witness ==
  /\ resp.op = "bulkDues"
  /\ resp.status = 400
  /\ Len(payments) > 0
  /\ Len(miqaats) > 0

\* C27: a mark-paid operation (bulk-mark-paid, or PUT /payments/:id with
\* status Paid and no receipt number of its own) leaves the receipt number of
\* every payment that already has one as it is.
MarksPaid ==
  /\ resp' # resp
  /\ \/ resp'.op = "bulkMarkPaid"
     \/ resp'.op = "updatePayment" /\ resp'.arg.body.updates.status = "Paid"

C27_ReceiptKept ==
  [][MarksPaid =>
       \A p \in 1..Len(payments) :
         payments[p].receiptNumber # "" => payments'[p].receiptNumber = payments[p].receiptNumber ]_vars

\* C29: a login is answered with a token only for a user that exists and is
\* active at that moment; every other login is answered 401 and adds no token.
C29_TokenOnlyForActive ==
  [][(resp' # resp /\ resp'.op = "login") =>
       IF resp'.status = 200
       THEN Exists(resp'.who) /\ users[resp'.who].status = "active"
       ELSE resp'.status = 401 /\ tokens' = tokens ]_vars

\* C28: across every step of markAsRead, markAllAsRead, clearNotification,
\* clearAllNotifications and getNotifications, each notification's forUsers
\* gains no member and its readBy loses none.
NotificationOps ==
  {"markAsRead", "markAllAsRead", "clearNotification", "clearAllNotifications", "getNotifications"}

C28_ForUsersShrinkReadByGrows ==
  [][resp'.op \in NotificationOps =>
       /\ Len(notifications') = Len(notifications)
       /\ \A i \in 1..Len(notifications) :
            /\ Range(notifications'[i].forUsers) \subseteq Range(notifications[i].forUsers)
            /\ Range(notifications[i].readBy) \subseteq Range(notifications'[i].readBy) ]_vars

\* a notification read by two users has been cleared by one of them
C28_Witness ==
  /\ resp.op \in {"clearNotification", "clearAllNotifications"}
  /\ \E i \in 1..Len(notifications) :
       /\ Cardinality(Range(notifications[i].readBy)) >= 2
       /\ \E n \in Range(notifications[i].readBy) : n \notin Range(notifications[i].forUsers)

\* C30: no two Attendance records share a (session, member) pair, and a
\* request of either mark-attendance endpoint that comes to its save with the
\* pair already stored is answered 400 and stores nothing.
OnePerPair ==
  \A i, j \in 1..Len(attendances) :
    (attendances[i].session = attendances[j].session /\ attendances[i].member = attendances[j].member)
      => i = j

MarkOps == {"POST /attendance/mark", "POST /attendance/mark/:sessionId"}

SecondRecordRefused ==
  (/\ resp' # resp
   /\ resp'.op \in MarkOps
   /\ resp'.status \notin {403, 404}
   /\ DuplicatePair(resp'.tgt, resp'.who))
    => resp'.status = 400 /\ attendances' = attendances

C30_OneRecordPerPair == []OnePerPair /\ [][SecondRecordRefused]_vars

====
